---- MODULE Spec2Model ----
(***************************************************************************)
(* Quantity resolution, portion tables, nutrient normalisation and scaling *)
(* of HealthNutritionTracker, modelled from the Python sources.            *)
(*                                                                         *)
(* Python str values are TLA+ strings (TLC evaluates Len, \o, SubSeq, Head *)
(* and Tail on them).  Python floats are exact rationals [n, d] in lowest  *)
(* terms (d > 0): binary rounding error is not modelled.  An Optional      *)
(* value is a sequence of length 0 (None) or 1.                            *)
(***************************************************************************)
EXTENDS Integers, Sequences, FiniteSets, TLC

VARIABLES
    name,       \* food description handed to grams_from_qty_text
    text,       \* the free-text quantity as typed
    typed,      \* how the typed text was composed: [lead, num, gap, suf, trail]
    portions,   \* the food's portion table (sequence of PortionEntry)
    usda,       \* what the external FoodData Central service answers
    UNIT_CONV,  \* nutrition/services/units.py: registry loaded from data/unit_conversions.json
    result,     \* (grams, used_unit, used_qty) returned by the call
    calls,      \* the lookups the call performed, in order of first use
    derived,    \* the portion table after derive_common_volumes_simple
    bag,        \* a food's nutrient record: key -> value as stored
    amounts,    \* the gram amounts a per-100 g bag is scaled to
    out,        \* the nutrient bags computed so far
    pc,         \* "start" before the call, then the function that ran
    my_food_list,   \* session["my_food_list"]: the user's foods
    diary_by_food,  \* session["diary_by_food"][date]: fdcId -> diary row
    diary_entries,  \* session["diary_entries"][date]: entry id -> diary row
    _entry_seq,     \* session["_entry_seq"]: the number of the last entry id given out
    history_days,   \* session["history_days"]: date -> saved day
    form,           \* the request's form fields qty_<fdcId>
    qty_errors,     \* the hints of the response: fdcId -> text
    lru,            \* the lru_cache of get_food_detail and of get_portions_for_fdc
    history_file,   \* instance/history/<user>.json: the list of saved days
    workers         \* the upsert_day calls under way: where each is and what it loaded

\* the state of one quantity resolution, of a derivation, of a scaling
parserVars == <<name, text, typed, portions, usda, UNIT_CONV, result, calls,
                derived, bag, amounts, out>>

\* the session, the request and response of /daily, the caches and the files
storeVars == <<my_food_list, diary_by_food, diary_entries, _entry_seq, history_days, form,
               qty_errors, lru, history_file, workers>>

vars == <<parserVars, pc, storeVars>>

\* nothing stored, no request
NoStores ==
    /\ my_food_list = <<>> /\ diary_by_food = <<>> /\ diary_entries = <<>> /\ _entry_seq = 0
    /\ history_days = <<>> /\ form = <<>> /\ qty_errors = <<>>
    /\ lru = <<>> /\ history_file = <<>> /\ workers = <<>>

(***************************************************************************)
(* Bounds of the model.                                                    *)
(***************************************************************************)
MaxEntries == 2   \* longest portion table enumerated
MaxSlashes == 3   \* longest run of '/' typed
MaxSpaces  == 1   \* widest run of blanks typed between number and unit
MaxPasses  == 2   \* most successive normalisations of one nutrient record

(***************************************************************************)
(* float: exact rational arithmetic.                                       *)
(***************************************************************************)
RECURSIVE GCD(_, _)
GCD(a, b) == IF b = 0 THEN a ELSE GCD(b, a % b)

Abs(x) == IF x < 0 THEN -x ELSE x

Rat(n, d) == LET g == GCD(Abs(n), d) IN [n |-> n \div g, d |-> d \div g]

Num(k) == [n |-> k, d |-> 1]

Zero == Num(0)

\* the product of two fractions in lowest terms that share no factor crosswise
Cross(x, y) == [n |-> x.n * y.n, d |-> x.d * y.d]

RMul(a, b) == Cross(Rat(a.n, b.d), Rat(b.n, a.d))

RDiv(a, b) == IF b.n < 0 THEN RMul(a, [n |-> -b.d, d |-> -b.n])
                         ELSE RMul(a, [n |-> b.d, d |-> b.n])

\* the sum over the least common denominator, g the GCD of the denominators
Over(a, b, g) == Rat(a.n * (b.d \div g) + b.n * (a.d \div g), (a.d \div g) * b.d)

RAdd(a, b) == Over(a, b, GCD(a.d, b.d))

RLeq(a, b) == a.n * b.d <= b.n * a.d

RPos(a) == a.n > 0

(***************************************************************************)
(* str: characters, case, whitespace.                                      *)
(***************************************************************************)
Ch(s, i) == SubSeq(s, i, i)

LowerLetters == "abcdefghijklmnopqrstuvwxyz"

UpperLetters == "ABCDEFGHIJKLMNOPQRSTUVWXYZ"

Digits == "0123456789"

CharsOf(s) == {Ch(s, i) : i \in 1..Len(s)}

LowerSet == CharsOf(LowerLetters)

UpperSet == CharsOf(UpperLetters)

DigitSet == CharsOf(Digits)

IndexIn(c, alphabet) == CHOOSE i \in 1..Len(alphabet) : Ch(alphabet, i) = c

IsDigit(c) == c \in DigitSet

IsAlpha(c) == c \in LowerSet \/ c \in UpperSet

IsWordChar(c) == IsAlpha(c) \/ IsDigit(c) \/ c = "_"

IsSpace(c) == c = " "

LowerCh(c) == IF c \in UpperSet THEN Ch(LowerLetters, IndexIn(c, UpperLetters)) ELSE c

RECURSIVE lower(_)
lower(s) == IF s = "" THEN "" ELSE LowerCh(Ch(s, 1)) \o lower(Tail(s))

RECURSIVE lstrip(_)
lstrip(s) == IF s # "" /\ IsSpace(Ch(s, 1)) THEN lstrip(Tail(s)) ELSE s

RECURSIVE rstrip(_)
rstrip(s) == IF s # "" /\ IsSpace(Ch(s, Len(s)))
             THEN rstrip(SubSeq(s, 1, Len(s) - 1)) ELSE s

strip(s) == rstrip(lstrip(s))

\* re.sub(r"\s+", " ", s)
RECURSIVE CollapseSpaces(_)
CollapseSpaces(s) ==
    IF s = "" THEN ""
    ELSE IF IsSpace(Ch(s, 1))
         THEN " " \o CollapseSpaces(lstrip(s))
         ELSE Ch(s, 1) \o CollapseSpaces(Tail(s))

\* str.rstrip("s")
RECURSIVE rstrip_s(_)
rstrip_s(s) == IF s # "" /\ Ch(s, Len(s)) = "s"
               THEN rstrip_s(SubSeq(s, 1, Len(s) - 1)) ELSE s

\* c in s
Contains(s, c) == \E i \in 1..(Len(s) - Len(c) + 1) : SubSeq(s, i, i + Len(c) - 1) = c

\* re.search(r"\b<lit>\b", s) for a literal that starts and ends with a word character
WordSearch(s, lit) ==
    \E i \in 1..(Len(s) - Len(lit) + 1) :
        /\ SubSeq(s, i, i + Len(lit) - 1) = lit
        /\ (i = 1 \/ ~IsWordChar(Ch(s, i - 1)))
        /\ (i + Len(lit) - 1 = Len(s) \/ ~IsWordChar(Ch(s, i + Len(lit))))

\* re.search of an alternation of such literals
PatSearch(s, lits) == \E lit \in lits : WordSearch(s, lit)

(***************************************************************************)
(* float(str) on the text a numeric group captures: \d+(?:\.\d+)?          *)
(***************************************************************************)
AllDigits(s) == s # "" /\ \A i \in 1..Len(s) : IsDigit(Ch(s, i))

IsDecimal(s) ==
    \/ AllDigits(s)
    \/ \E k \in 1..Len(s) : /\ Ch(s, k) = "."
                            /\ AllDigits(SubSeq(s, 1, k - 1))
                            /\ AllDigits(SubSeq(s, k + 1, Len(s)))

RECURSIVE IntOf(_)
IntOf(s) == IF s = "" THEN 0
            ELSE IntOf(SubSeq(s, 1, Len(s) - 1)) * 10 + (IndexIn(Ch(s, Len(s)), Digits) - 1)

RECURSIVE Pow10(_)
Pow10(k) == IF k = 0 THEN 1 ELSE 10 * Pow10(k - 1)

float(s) ==
    IF AllDigits(s) THEN Num(IntOf(s))
    ELSE LET k == CHOOSE j \in 1..Len(s) : Ch(s, j) = "."
         IN  Rat(IntOf(SubSeq(s, 1, k - 1) \o SubSeq(s, k + 1, Len(s))), Pow10(Len(s) - k))

(***************************************************************************)
(* str(int) and str(float), as f-strings format them.                      *)
(***************************************************************************)
RECURSIVE IntToStr(_)
IntToStr(k) == IF k < 10 THEN Ch(Digits, k + 1)
               ELSE IntToStr(k \div 10) \o Ch(Digits, (k % 10) + 1)

\* repr of a non-negative float with at most three decimals: "1.0", "0.5", "2.25"
FloatToStr(q) ==
    LET m    == (q.n * 1000) \div q.d
        frac == m % 1000
        d3   == IF frac % 10 # 0 THEN Ch(Digits, (frac \div 100) + 1)
                                     \o Ch(Digits, ((frac \div 10) % 10) + 1)
                                     \o Ch(Digits, (frac % 10) + 1)
                ELSE IF frac % 100 # 0 THEN Ch(Digits, (frac \div 100) + 1)
                                            \o Ch(Digits, ((frac \div 10) % 10) + 1)
                ELSE Ch(Digits, (frac \div 100) + 1)
    IN  IntToStr(m \div 1000) \o "." \o d3

(***************************************************************************)
(* nutrition/services/portions.py                                          *)
(*                                                                         *)
(* A raw foodPortions record of a food detail is                           *)
(*   [gramWeight, amount : Optional float, measureUnit, modifier : str];   *)
(* gramWeight is None when the record has no numeric gram weight.          *)
(* A PortionEntry is [id, label, unit : str, gramWeight : float,           *)
(* amount : Optional float].                                               *)
(***************************************************************************)
Entry(id, label, unit, gw, amount) ==
    [id |-> id, label |-> label, unit |-> unit, gramWeight |-> gw, amount |-> amount]

RECURSIVE recipe_portions_from(_, _)
recipe_portions_from(raw, i) ==
    IF i > Len(raw) THEN <<>>
    ELSE LET p     == raw[i]
             mu    == p.measureUnit
             mod   == p.modifier
             amt   == p.amount
             base  == IF amt # <<>> /\ amt[1].n # 0 /\ mu # ""
                      THEN strip(FloatToStr(amt[1]) \o " " \o mu)
                      ELSE IF mu # "" THEN mu ELSE "portion"
             label == IF mod # "" THEN base \o " (" \o mod \o ")" ELSE base
         IN  IF p.gramWeight = <<>>
             THEN recipe_portions_from(raw, i + 1)
             ELSE <<Entry(IntToStr(i - 1), label, lower(mu), p.gramWeight[1], amt)>>
                  \o recipe_portions_from(raw, i + 1)

recipe_portions(detail) == recipe_portions_from(detail.foodPortions, 1)

\* FirstWithUnit taking the last entry of the table that has such a unit
LastWithUnit(table, units) ==
    IF \E i \in 1..Len(table) : table[i].unit \in units
    THEN <<table[CHOOSE i \in 1..Len(table) :
                    /\ table[i].unit \in units
                    /\ \A j \in (i + 1)..Len(table) : table[j].unit \notin units]>>
    ELSE <<>>

\* next((p for p in portions if p.get("unit") in units), None)
FirstWithUnit(table, units) ==
    IF \E i \in 1..Len(table) : table[i].unit \in units
    THEN <<table[CHOOSE i \in 1..Len(table) :
                    /\ table[i].unit \in units
                    /\ \A j \in 1..(i - 1) : table[j].unit \notin units]>>
    ELSE <<>>

clone(new_unit, grams, note, len_out) ==
    Entry("der-" \o new_unit \o "-" \o IntToStr(len_out),
          "1 " \o new_unit \o " (" \o note \o ")", new_unit, grams, <<Num(1)>>)

\* derive_common_volumes_simple running both directions
derive_both_directions(table) ==
    LET tbsp == FirstWithUnit(table, {"tablespoon", "tbsp"})
        tsp  == FirstWithUnit(table, {"teaspoon", "tsp"})
        out1 == IF tbsp # <<>>
                THEN LET gw == tbsp[1].gramWeight
                         o1 == Append(table, clone("tsp", RDiv(gw, Num(3)), "derived", Len(table)))
                     IN  Append(o1, clone("cup", RMul(gw, Num(16)), "derived", Len(o1)))
                ELSE table
    IN  IF tsp # <<>>
        THEN Append(out1, clone("tbsp", RMul(tsp[1].gramWeight, Num(3)), "derived", Len(out1)))
        ELSE out1

\* derive_common_volumes_simple deriving from a teaspoon entry only
derive_from_teaspoon_only(table) ==
    LET tsp == FirstWithUnit(table, {"teaspoon", "tsp"})
    IN  IF tsp # <<>>
        THEN Append(table, clone("tbsp", RMul(tsp[1].gramWeight, Num(3)), "derived", Len(table)))
        ELSE table

derive_common_volumes_simple(table) ==
    LET tbsp == FirstWithUnit(table, {"tablespoon", "tbsp"})
        tsp  == FirstWithUnit(table, {"teaspoon", "tsp"})
        out1 == IF tbsp # <<>>
                THEN LET gw == tbsp[1].gramWeight
                         o1 == Append(table, clone("tsp", RDiv(gw, Num(3)), "derived", Len(table)))
                     IN  Append(o1, clone("cup", RMul(gw, Num(16)), "derived", Len(o1)))
                ELSE table
    IN  IF tsp # <<>> /\ tbsp = <<>>
        THEN Append(out1, clone("tbsp", RMul(tsp[1].gramWeight, Num(3)), "derived", Len(out1)))
        ELSE out1

UNIT_SYNONYMS ==
    <<  <<"clove", {"clove", "cloves"}>>,
        <<"cup", {"cup", "cups"}>>,
        <<"tbsp", {"tbsp", "tablespoon", "tablespoons"}>>,
        <<"tsp", {"tsp", "teaspoon", "teaspoons"}>>,
        <<"pound", {"lb", "lbs", "pound", "pounds"}>>,
        <<"ounce", {"oz", "ounce", "ounces"}>>,
        <<"whole", {"whole", "each", "piece"}>>,
        <<"undetermined", {"undetermined"}>>  >>

Candidates(u) ==
    {u} \cup UNION { {UNIT_SYNONYMS[k][1]} \cup UNIT_SYNONYMS[k][2] :
                     k \in {j \in 1..Len(UNIT_SYNONYMS) :
                              u = UNIT_SYNONYMS[j][1] \/ u \in UNIT_SYNONYMS[j][2]} }

\* the two passes over the table: by unit, then by label substring
MatchAmong(table, cands) ==
    LET byUnit  == FirstWithUnit(table, cands)
        inLabel == {i \in 1..Len(table) :
                      \E c \in cands : Contains(lower(table[i].label), c)}
    IN  IF byUnit # <<>> THEN byUnit
        ELSE IF inLabel # {}
             THEN <<table[CHOOSE i \in inLabel : \A j \in inLabel : i <= j]>>
             ELSE <<>>

portion_match_from_labels(table, user_unit) ==
    IF user_unit = "" \/ table = <<>> THEN <<>>
    ELSE MatchAmong(table, Candidates(lower(strip(user_unit))))

(***************************************************************************)
(* nutrition/services/usda_client.py                                       *)
(*                                                                         *)
(* svc is the service as it answers now:                                   *)
(*   svc.search : query -> sequence of hits [fdcId, dataType]              *)
(*   svc.detail : fdcId -> Optional detail [foodPortions]                  *)
(* A failed or empty answer (_get returns None) is <<>>.  get_food_detail  *)
(* is lru_cached: an answer kept from an earlier call is, for the one call *)
(* modelled here, one more answer svc may give.                            *)
(***************************************************************************)
Take(seq, k) == SubSeq(seq, 1, IF Len(seq) < k THEN Len(seq) ELSE k)

search_foods(svc, query, page_size) ==
    IF query \in DOMAIN svc.search THEN Take(svc.search[query], page_size) ELSE <<>>

get_food_detail(svc, fdc_id) ==
    IF fdc_id \in DOMAIN svc.detail THEN svc.detail[fdc_id] ELSE <<>>

PreferredTypes == <<"Foundation", "SR Legacy", "Survey (FNDDS)", "Branded">>

\* the hits of the preferred types in the order the service gave them
OrderedAsGiven(foods, k) ==
    SelectSeq(foods, LAMBDA f : \E j \in k..4 : f.dataType = <<"Foundation", "SR Legacy",
                                                              "Survey (FNDDS)", "Branded">>[j])

RECURSIVE OrderedByType(_, _)
OrderedByType(foods, k) ==
    IF k > Len(PreferredTypes) THEN <<>>
    ELSE SelectSeq(foods, LAMBDA f : f.dataType = PreferredTypes[k])
         \o OrderedByType(foods, k + 1)

search_top_for_recipes(svc, query, limit) ==
    LET foods     == search_foods(svc, query, limit)
        ordered   == OrderedByType(foods, 1)
        leftovers == SelectSeq(foods, LAMBDA f : \A i \in 1..Len(ordered) : ordered[i] # f)
    IN  Take(ordered \o leftovers, limit)

(***************************************************************************)
(* nutrition/services/portions.py: find_alt_portions_for_name              *)
(***************************************************************************)
RECURSIVE TakeFirstWithPortions(_, _, _)
\* lines 88-92 for the hit at i, whose simplified portions are parts
DerivedOrNext(svc, hits, i, parts) ==
    IF parts # <<>> THEN derive_common_volumes_simple(parts)
    ELSE TakeFirstWithPortions(svc, hits, i + 1)

PartsOf(det) == IF det = <<>> THEN <<>> ELSE recipe_portions(det[1])

TakeFirstWithPortions(svc, hits, i) ==
    IF i > Len(hits) THEN <<>>
    ELSE DerivedOrNext(svc, hits, i, PartsOf(get_food_detail(svc, hits[i].fdcId)))

SearchAndTake(svc, query) ==
    TakeFirstWithPortions(svc, search_top_for_recipes(svc, query, 20), 1)

Variants(nm) ==
    (IF Contains(nm, "tomato, roma") THEN <<"roma tomato">> ELSE <<>>)
    \o (IF Contains(nm, "roma tomato") THEN <<"tomato, roma">> ELSE <<>>)

RECURSIVE TryVariants(_, _, _)
VariantOrNext(svc, vs, i, parts) ==
    IF parts # <<>> THEN parts ELSE TryVariants(svc, vs, i + 1)

TryVariants(svc, vs, i) ==
    IF i > Len(vs) THEN <<>>
    ELSE VariantOrNext(svc, vs, i, SearchAndTake(svc, vs[i]))

FirstOrVariants(svc, nm, parts) ==
    IF parts # <<>> THEN parts ELSE TryVariants(svc, Variants(lower(nm)), 1)

find_alt_portions_for_name(svc, nm) == FirstOrVariants(svc, nm, SearchAndTake(svc, nm))

(***************************************************************************)
(* nutrition/services/units.py: the local registry.                        *)
(*                                                                         *)
(* conv is UNIT_CONV: [items, defaults].  An item is [pattern, units]; a   *)
(* pattern is the set of \b-delimited literals its regex accepts ({} for a *)
(* missing pattern); units maps unit -> grams.  A default is               *)
(* [isdict, v, d]: the number v, or the dict d as a sequence of <<key,     *)
(* grams>> in insertion order.                                             *)
(***************************************************************************)
norm(s) == CollapseSpaces(lower(strip(s)))

RegistryItemHits(conv, n, u) ==
    {i \in 1..Len(conv.items) :
        /\ PatSearch(n, conv.items[i].pattern)
        /\ u \in DOMAIN conv.items[i].units}

DefaultBase(dv) ==
    LET wl == {i \in 1..Len(dv.d) : dv.d[i][1] = "water_like" /\ dv.d[i][2].n # 0}
    IN  IF wl # {} THEN <<dv.d[CHOOSE i \in wl : TRUE][2]>>
        ELSE IF dv.d # <<>> THEN <<dv.d[1][2]>> ELSE <<>>

\* 2) generic defaults, optionally water-like fallback
RegistryDefault(dv, qty) ==
    IF ~dv.isdict THEN RMul(dv.v, qty)
    ELSE IF DefaultBase(dv) # <<>> THEN RMul(DefaultBase(dv)[1], qty) ELSE Zero

\* hits: the items whose pattern matches the name and that define the unit
RegistryLookup(conv, u, qty, hits) ==
    IF hits # {}
    THEN RMul(conv.items[CHOOSE i \in hits : \A j \in hits : i <= j].units[u], qty)
    ELSE IF u \in DOMAIN conv.defaults THEN RegistryDefault(conv.defaults[u], qty)
    ELSE Zero

RegistryFor(conv, n, u, qty) == RegistryLookup(conv, u, qty, RegistryItemHits(conv, n, u))

grams_from_local_registry(conv, nm, unit, qty) ==
    RegistryFor(conv, norm(nm), rstrip_s(norm(unit)), qty)

(***************************************************************************)
(* nutrition/services/quantity_parser.py                                   *)
(***************************************************************************)
D(n, d) == Rat(n, d)

\* (regex, {unit: grams}): each regex is written as the set of \b-delimited
\* literals it accepts in a name whose whitespace runs are single blanks
FALLBACK_TYPICAL_WEIGHTS ==
    <<  [pat  |-> {"cracker", "crackers", "saltine", "saltines", "ritz",
                   "crisplight", "crisp light", "crisp'light", "crisp' light",
                   "crispnlight", "crispn light", "crisp'nlight", "crisp'n light"},
         umap |-> ("cracker" :> Num(4) @@ "crackers" :> Num(4) @@ "piece" :> Num(4))],
        [pat  |-> {"garlic"},
         umap |-> ("clove" :> Num(3) @@ "whole" :> Num(3) @@ "tbsp" :> D(85, 10)
                   @@ "tsp" :> D(28, 10))],
        [pat  |-> {"tomato,roma", "tomato, roma", "roma tomato"},
         umap |-> ("whole" :> Num(62) @@ "cup" :> Num(180))],
        [pat  |-> {"tomato"},
         umap |-> ("whole" :> Num(123) @@ "cup" :> Num(180))],
        [pat  |-> {"onion"},
         umap |-> ("whole" :> Num(110) @@ "cup" :> Num(160))],
        [pat  |-> {"pepperoncini"},
         umap |-> ("whole" :> Num(10))],
        [pat  |-> {"chicken thigh"},
         umap |-> ("whole" :> Num(80))]  >>

TypicalHits(n, u) ==
    {i \in 1..Len(FALLBACK_TYPICAL_WEIGHTS) :
        /\ PatSearch(n, FALLBACK_TYPICAL_WEIGHTS[i].pat)
        /\ u \in DOMAIN FALLBACK_TYPICAL_WEIGHTS[i].umap}

FirstTypical(u, hits) ==
    IF hits # {}
    THEN <<FALLBACK_TYPICAL_WEIGHTS[CHOOSE i \in hits : \A j \in hits : i <= j].umap[u]>>
    ELSE <<>>

TypicalFor(n, u) == FirstTypical(u, TypicalHits(n, u))

typical_grams_for_unit(nm, unit) ==
    TypicalFor(CollapseSpaces(lower(strip(nm))), rstrip_s(lower(strip(unit))))

GENERIC_VOL == ("cup" :> Num(240) @@ "tbsp" :> Num(15) @@ "tsp" :> Num(5))

Guess(g, c) == [grams |-> g, calls |-> c]

\* the generic weight of one unit, whatever the quantity
Tier4Unscaled(u, qty, c) ==
    IF u \in DOMAIN GENERIC_VOL
    THEN Guess(GENERIC_VOL[u], c \o <<"generic">>)
    ELSE Guess(Zero, c \o <<"generic">>)

\* 4) generic volume approximations
Tier4(u, qty, c) ==
    IF u \in DOMAIN GENERIC_VOL
    THEN Guess(RMul(GENERIC_VOL[u], qty), c \o <<"generic">>)
    ELSE Guess(Zero, c \o <<"generic">>)

\* Tier3 returning the alternate entry's weight whatever the count
Tier3Unscaled(unit, qty, c, p2) ==
    IF p2 # <<>> THEN Guess(p2[1].gramWeight, c \o <<"alternate">>)
    ELSE Tier4(lower(strip(unit)), qty, c \o <<"alternate">>)

\* 3) alternates: p2 is the alternate food's entry for the unit, if any
Tier3(unit, qty, c, p2) ==
    IF p2 # <<>> THEN Guess(RMul(p2[1].gramWeight, qty), c \o <<"alternate">>)
    ELSE Tier4(lower(strip(unit)), qty, c \o <<"alternate">>)

AltMatch(alt, unit) == IF alt # <<>> THEN portion_match_from_labels(alt, unit) ELSE <<>>

\* Tier2 going on to the alternates whatever the heuristic table says
Tier2NoHeuristic(svc, nm, unit, qty, c, tw) ==
    Tier3(unit, qty, c \o <<"typical">>, AltMatch(find_alt_portions_for_name(svc, nm), unit))

\* 2) typical weights: tw is the heuristic weight of one unit, if any
Tier2(svc, nm, unit, qty, c, tw) ==
    IF tw # <<>> THEN Guess(RMul(tw[1], qty), c \o <<"typical">>)
    ELSE Tier3(unit, qty, c \o <<"typical">>, AltMatch(find_alt_portions_for_name(svc, nm), unit))

\* 1) the food's own portions: p is its entry for the unit, if any
Tier1(svc, nm, unit, qty, c, p) ==
    IF p # <<>> THEN Guess(RMul(p[1].gramWeight, qty), c)
    ELSE Tier2(svc, nm, unit, qty, c, typical_grams_for_unit(nm, unit))

\* guess_grams_from_unit with the lookups it performed: [grams, calls]
GuessChain(svc, nm, unit, qty, table) ==
    IF table # <<>>
    THEN Tier1(svc, nm, unit, qty, <<"portions">>, portion_match_from_labels(table, unit))
    ELSE Tier1(svc, nm, unit, qty, <<>>, <<>>)

guess_grams_from_unit(svc, nm, unit, qty, table) == GuessChain(svc, nm, unit, qty, table).grams

priority == <<"cracker", "slice", "cup", "tbsp", "tsp", "whole", "piece">>

\* pick_default_unit without the priority order: the first unit named
pick_first_unit(table) ==
    LET named == {i \in 1..Len(table) : lower(table[i].unit) # ""}
    IN  IF named # {}
        THEN <<lower(table[CHOOSE i \in named : \A j \in named : i <= j].unit)>>
        ELSE <<>>

pick_default_unit(table) ==
    LET units == {lower(table[i].unit) : i \in {j \in 1..Len(table) : table[j].unit # ""}}
        inPri == {k \in 1..Len(priority) : priority[k] \in units}
        named == {i \in 1..Len(table) : lower(table[i].unit) # ""}
    IN  IF inPri # {} THEN <<priority[CHOOSE k \in inPri : \A j \in inPri : k <= j]>>
        ELSE IF named # {}
             THEN <<lower(table[CHOOSE i \in named : \A j \in named : i <= j].unit)>>
             ELSE <<>>

UNIT_MAP ==
    "tablespoon" :> "tbsp" @@ "tbsp" :> "tbsp" @@ "tbs" :> "tbsp"
    @@ "teaspoon" :> "tsp" @@ "tsp" :> "tsp"
    @@ "cups" :> "cup" @@ "cup" :> "cup"
    @@ "cloves" :> "clove" @@ "clove" :> "clove"
    @@ "pieces" :> "piece" @@ "piece" :> "piece"
    @@ "ounces" :> "oz" @@ "ounce" :> "oz" @@ "oz" :> "oz"
    @@ "pounds" :> "lb" @@ "pound" :> "lb" @@ "lb" :> "lb" @@ "lbs" :> "lb"
    @@ "g" :> "g" @@ "gram" :> "g" @@ "grams" :> "g"
    @@ "slice" :> "slice" @@ "slices" :> "slice"
    @@ "cracker" :> "cracker" @@ "crackers" :> "cracker"
    @@ "whole" :> "whole"

\* the length of the longest suffix of s made of characters of the class
TrailLen(s, class) ==
    CHOOSE k \in 0..Len(s) :
        /\ \A i \in (Len(s) - k + 1)..Len(s) : Ch(s, i) \in class
        /\ (k = Len(s) \/ Ch(s, Len(s) - k) \notin class)

\* ReGrams without the \s* between the number and the g
ReGramsNoSpace(s) ==
    LET num == SubSeq(s, 1, Len(s) - 1)
    IN  IF s # "" /\ Ch(s, Len(s)) = "g" /\ IsDecimal(num) THEN <<num>> ELSE <<>>

\* ^(\d+(?:\.\d+)?)\s*g$ : <<group 1>> or no match
ReGrams(s) ==
    LET num == rstrip(SubSeq(s, 1, Len(s) - 1))
    IN  IF s # "" /\ Ch(s, Len(s)) = "g" /\ IsDecimal(num) THEN <<num>> ELSE <<>>

\* ^(\d+(?:\.\d+)?)$
ReNumber(s) == IF IsDecimal(s) THEN <<s>> ELSE <<>>

\* OnlySlashes accepting a single slash only
OnlyOneSlash(s) == s = "/"

\* set(s) == {"/"}
OnlySlashes(s) == s # "" /\ \A i \in 1..Len(s) : Ch(s, i) = "/"

\* ReNumSlashes capturing the number of slashes in place of the number
ReNumSlashesCount(s) ==
    LET k   == TrailLen(s, {"/"})
        num == rstrip(SubSeq(s, 1, Len(s) - k))
    IN  IF k >= 1 /\ IsDecimal(num) THEN <<IntToStr(k)>> ELSE <<>>

\* ^(\d+(?:\.\d+)?)\s*/+$
ReNumSlashes(s) ==
    LET k   == TrailLen(s, {"/"})
        num == rstrip(SubSeq(s, 1, Len(s) - k))
    IN  IF k >= 1 /\ IsDecimal(num) THEN <<num>> ELSE <<>>

\* ReNumUnit with blanks allowed inside the unit: ([a-zA-Z ]+)
ReNumUnitLoose(s) ==
    LET k   == TrailLen(s, LowerSet \cup UpperSet \cup {" "})
        num == SubSeq(s, 1, Len(s) - k)
    IN  IF k >= 1 /\ IsDecimal(num)
        THEN <<num, strip(SubSeq(s, Len(s) - k + 1, Len(s)))>> ELSE <<>>

\* ^(\d+(?:\.\d+)?)\s*([a-zA-Z]+)$ : <<group 1, group 2>>
ReNumUnit(s) ==
    LET k   == TrailLen(s, LowerSet \cup UpperSet)
        num == rstrip(SubSeq(s, 1, Len(s) - k))
    IN  IF k >= 1 /\ IsDecimal(num) THEN <<num, SubSeq(s, Len(s) - k + 1, Len(s))>> ELSE <<>>

Triple(g, u, q, c) == [grams |-> g, unit |-> u, qty |-> q, calls |-> c]

\* if grams <= 0: grams = grams_from_local_registry_fn(name, unit, qty)
OrRegistry(conv, nm, unit, qty, guess) ==
    IF guess.grams.n <= 0
    THEN Triple(grams_from_local_registry(conv, nm, unit, qty), unit, qty,
                guess.calls \o <<"registry">>)
    ELSE Triple(guess.grams, unit, qty, guess.calls)

ChainThenRegistry(svc, conv, nm, qty, unit, table) ==
    OrRegistry(conv, nm, unit, qty, GuessChain(svc, nm, unit, qty, table))

\* pick_default_unit(portions) or "whole"
OrWhole(pd) == IF pd # <<>> /\ pd[1] # "" THEN pd[1] ELSE "whole"

\* the default-unit branches 2), 3) and 4) share this body
DefaultUnitGrams(svc, conv, nm, qty, table) ==
    ChainThenRegistry(svc, conv, nm, qty, OrWhole(pick_default_unit(table)), table)

\* the last resort of branch 5) for the two mass units
\* the fallback knowing pounds only
MassFallbackPounds(t) ==
    IF t.grams.n <= 0 /\ t.unit = "lb"
    THEN Triple(RMul(t.qty, D(453592, 1000)), t.unit, t.qty, t.calls \o <<"mass">>)
    ELSE t

MassFallback(t) ==
    IF t.grams.n <= 0 /\ t.unit = "lb"
    THEN Triple(RMul(t.qty, D(453592, 1000)), t.unit, t.qty, t.calls \o <<"mass">>)
    ELSE IF t.grams.n <= 0 /\ t.unit = "oz"
    THEN Triple(RMul(t.qty, D(283495, 10000)), t.unit, t.qty, t.calls \o <<"mass">>)
    ELSE t

ExplicitUnitGrams(svc, conv, nm, qty, unit, table) ==
    MassFallback(ChainThenRegistry(svc, conv, nm, qty, unit, table))


\* UNIT_MAP.get(word, word)
Canonical(word) == IF word \in DOMAIN UNIT_MAP THEN UNIT_MAP[word] ELSE word

Match(kind, m) == [kind |-> kind, m |-> m]

\* the first of the five patterns that matches s, with its groups
FirstPattern(s) ==
    IF ReGrams(s) # <<>> THEN Match("grams", ReGrams(s))
    ELSE IF ReNumber(s) # <<>> THEN Match("number", ReNumber(s))
    ELSE IF OnlySlashes(s) THEN Match("slashes", <<>>)
    ELSE IF ReNumSlashes(s) # <<>> THEN Match("number_slashes", ReNumSlashes(s))
    ELSE IF ReNumUnit(s) # <<>> THEN Match("number_unit", ReNumUnit(s))
    ELSE Match("unrecognized", <<>>)

\* the branch taken for the pattern matched
Branch(svc, conv, nm, s, table, p) ==
    IF p.kind = "grams" THEN Triple(float(p.m[1]), "g", float(p.m[1]), <<>>)
    ELSE IF p.kind = "slashes" THEN DefaultUnitGrams(svc, conv, nm, Num(Len(s)), table)
    ELSE IF p.kind \in {"number", "number_slashes"}
    THEN DefaultUnitGrams(svc, conv, nm, float(p.m[1]), table)
    ELSE IF p.kind = "number_unit"
    THEN ExplicitUnitGrams(svc, conv, nm, float(p.m[1]), Canonical(p.m[2]), table)
    ELSE Triple(Zero, "", Zero, <<>>)

Patterns(svc, conv, nm, s, table) == Branch(svc, conv, nm, s, table, FirstPattern(s))

\* the result and, in calls, the lookups made on the way
grams_from_qty_text(svc, conv, nm, txt, table) ==
    IF lower(strip(txt)) = "" THEN Triple(Zero, "", Zero, <<>>)
    ELSE Patterns(svc, conv, nm, CollapseSpaces(lower(strip(txt))), table)

(***************************************************************************)
(* nutrition/services/units.py: the second parser of quantity texts.       *)
(* None is the empty sequence, a value v is <<v>>.                         *)
(***************************************************************************)
\* \d+\s*/\s*\d+
IsFraction(s) ==
    \E k \in 1..Len(s) : /\ Ch(s, k) = "/"
                         /\ AllDigits(rstrip(SubSeq(s, 1, k - 1)))
                         /\ AllDigits(lstrip(SubSeq(s, k + 1, Len(s))))

\* on the texts the numeric groups capture: a decimal, or a fraction split at
\* its "/", where a zero denominator raises and gives None
parse_fraction_or_float(s0) ==
    LET s == strip(s0)
    IN  IF s = "" THEN <<>>
        ELSE IF Contains(s, "/")
        THEN LET k == CHOOSE j \in 1..Len(s) :
                          Ch(s, j) = "/" /\ \A i \in 1..(j - 1) : Ch(s, i) # "/"
                 a == strip(SubSeq(s, 1, k - 1))
                 b == strip(SubSeq(s, k + 1, Len(s)))
             IN  IF IsDecimal(a) /\ IsDecimal(b) /\ float(b).n # 0
                 THEN <<RDiv(float(a), float(b))>> ELSE <<>>
        ELSE IF IsDecimal(s) THEN <<float(s)>> ELSE <<>>

\* ^(\d+(?:\.\d+)?|\d+\s*/\s*\d+)\s*(g|gram|grams)$ : <<group 1>> or no match
ReGramWords(s) ==
    LET hits == {w \in {"g", "gram", "grams"} :
                    /\ Len(s) > Len(w)
                    /\ SubSeq(s, Len(s) - Len(w) + 1, Len(s)) = w
                    /\ LET num == rstrip(SubSeq(s, 1, Len(s) - Len(w)))
                       IN  IsDecimal(num) \/ IsFraction(num)}
    IN  IF hits = {} THEN <<>>
        ELSE LET w == CHOOSE h \in hits : TRUE
             IN  <<rstrip(SubSeq(s, 1, Len(s) - Len(w)))>>

\* re.fullmatch(r'[\/x\s]+', s)
OnlySlashesOrX(s) == s # "" /\ \A i \in 1..Len(s) : Ch(s, i) \in {"/", "x", " "}

\* s.count('/') + s.count('x')
CountSlashesAndX(s) == Cardinality({i \in 1..Len(s) : Ch(s, i) \in {"/", "x"}})

\* ^(?:x\s*)?(\d+(?:\.\d+)?)\s*(?:x)?$
ReTimes(s) ==
    LET a   == IF s # "" /\ Ch(s, 1) = "x" THEN lstrip(Tail(s)) ELSE s
        b   == IF a # "" /\ Ch(a, Len(a)) = "x" THEN SubSeq(a, 1, Len(a) - 1) ELSE a
        num == rstrip(b)
    IN  IF IsDecimal(num) THEN <<num>> ELSE <<>>

\* the position of the first white space of s, 0 when there is none
FirstSpace(s) ==
    IF \E i \in 1..Len(s) : IsSpace(Ch(s, i))
    THEN CHOOSE i \in 1..Len(s) : IsSpace(Ch(s, i)) /\ \A j \in 1..(i - 1) : ~IsSpace(Ch(s, j))
    ELSE 0

\* ^(\d+(?:\.\d+)?|\d+\s*/\s*\d+)\s+(.+)$ on a stripped text: <<group 1, group 2>>.
\* The decimal alternative is tried first; the fraction one only when the
\* text before the first white space is no decimal.
ReQtyUnit(s) ==
    LET k    == FirstSpace(s)
        head == SubSeq(s, 1, k - 1)
    IN  IF k > 1 /\ IsDecimal(head)
        THEN <<head, lstrip(SubSeq(s, k, Len(s)))>>
        ELSE LET cuts == {j \in 2..(Len(s) - 1) :
                             /\ IsSpace(Ch(s, j + 1))
                             /\ IsFraction(SubSeq(s, 1, j))}
             IN  IF cuts = {} THEN <<>>
                 ELSE LET j == CHOOSE c \in cuts : TRUE
                      IN  <<SubSeq(s, 1, j), lstrip(SubSeq(s, j + 1, Len(s)))>>

Parsed(kind, qty, unit) == [kind |-> kind, qty |-> qty, unit |-> unit]

\* _parse_fraction_or_float(m.group(1)) or 0.0
OrZero(q) == IF q # <<>> /\ q[1].n # 0 THEN q ELSE <<Zero>>

QtyUnit(m) == Parsed("units", OrZero(parse_fraction_or_float(m[1])), strip(m[2]))

\* the patterns of parse_qty_text on the stripped, lower-cased text
Intent(s) ==
    IF ReGramWords(s) # <<>>
    THEN Parsed("grams", parse_fraction_or_float(ReGramWords(s)[1]), "")
    ELSE IF OnlySlashesOrX(s) THEN Parsed("default_units", <<Num(CountSlashesAndX(s))>>, "")
    ELSE IF ReTimes(s) # <<>> THEN Parsed("default_units", <<float(ReTimes(s)[1])>>, "")
    ELSE IF ReQtyUnit(s) # <<>> THEN QtyUnit(ReQtyUnit(s))
    ELSE Parsed("units", <<Num(1)>>, s)

\* None, or the intent: kind "grams" keeps its value (None or a number) in qty
parse_qty_text(txt) == IF lower(strip(txt)) = "" THEN <<>> ELSE <<Intent(lower(strip(txt)))>>

units_priority == <<"cracker", "slice", "cup", "tbsp", "tsp", "whole", "piece", "each">>

units_pick_default_unit(table) ==
    LET units == SelectSeq([i \in 1..Len(table) |-> lower(table[i].unit)], LAMBDA u : u # "")
        found == {i \in 1..Len(units_priority) :
                     \E j \in 1..Len(units) : units[j] = units_priority[i]}
    IN  IF found # {} THEN units_priority[CHOOSE i \in found : \A j \in found : i <= j]
        ELSE IF units # <<>> THEN units[1] ELSE "whole"

UnitsTriple(g, u, q, c) == [grams |-> g, unit |-> u, qty |-> q, calls |-> c]

\* 1) direct grams: float(parsed.get("value") or 0.0)
DirectGrams(g) == UnitsTriple(g, <<"g">>, <<g>>, <<>>)

\* p is the table's entry for the unit, if any
FromPortion(p, unit, qty, looked) ==
    IF p # <<>> THEN UnitsTriple(RMul(p[1].gramWeight, qty), <<unit>>, <<qty>>, looked)
    ELSE UnitsTriple(Zero, <<unit>>, <<qty>>, looked)

Looked(table) == IF table # <<>> THEN <<"portions">> ELSE <<>>

LookUp(table, unit, qty) ==
    FromPortion(portion_match_from_labels(table, unit), unit, qty, Looked(table))

\* the branch of units.grams_from_qty_text for what parse_qty_text returned
UnitsBranch(table, parsed) ==
    IF parsed = <<>> THEN UnitsTriple(Zero, <<>>, <<>>, <<>>)
    ELSE IF parsed[1].kind = "grams"
    THEN DirectGrams(IF parsed[1].qty # <<>> THEN parsed[1].qty[1] ELSE Zero)
    ELSE IF parsed[1].kind = "default_units"
    THEN LookUp(table, units_pick_default_unit(table), parsed[1].qty[1])
    ELSE IF parsed[1].qty[1].n <= 0
    THEN UnitsTriple(Zero, <<parsed[1].unit>>, parsed[1].qty, <<>>)
    ELSE LookUp(table, parsed[1].unit, parsed[1].qty[1])

\* grams_from_qty_text(desc, qty_text, portions) of units.py, whose
\* grams_from_local_registry_fn keeps its default None
units_grams_from_qty_text(desc, qty_text, table) == UnitsBranch(table, parse_qty_text(qty_text))

(***************************************************************************)
(* nutrition/services/portions.py: the tail of get_portions_for_fdc, which *)
(* every table handed to the parser by /daily has passed through.          *)
(***************************************************************************)
RECURSIVE normalize_from(_, _)
normalize_from(parts, i) ==
    IF i > Len(parts) THEN <<>>
    ELSE LET p == parts[i]
         IN  IF p.gramWeight.n > 0
             THEN <<Entry(p.id,
                          IF p.label # "" THEN p.label
                          ELSE IF p.unit # "" THEN p.unit ELSE "portion",
                          lower(p.unit), p.gramWeight, <<>>)>>
                  \o normalize_from(parts, i + 1)
             ELSE normalize_from(parts, i + 1)

normalize_portions(parts) ==
    normalize_from(IF parts # <<>> THEN derive_common_volumes_simple(parts) ELSE parts, 1)

(***************************************************************************)
(* Nutrient bags.  A bag is a function from key strings to Python values;  *)
(* a value is None, a str or a number (int and float compare equal, so a   *)
(* number is its rational value).                                          *)
(***************************************************************************)
PyNone == [t |-> "none", s |-> "", v |-> Zero]

PyStr(s) == [t |-> "str", s |-> s, v |-> Zero]

PyNum(r) == [t |-> "num", s |-> "", v |-> r]

\* n.get(k)
Get(n, k) == IF k \in DOMAIN n THEN n[k] ELSE PyNone

\* n[k] = x
Put(n, k, x) == [j \in DOMAIN n \cup {k} |-> IF j = k THEN x ELSE n[j]]

\* bool(x)
Truthy(x) == (x.t = "num" /\ x.v.n # 0) \/ (x.t = "str" /\ x.s # "")

\* float(x): <<value>>, or <<>> when it raises; strings are decimal numerals
\* or not numbers at all
to_float(x) ==
    IF x.t = "num" THEN <<x.v>>
    ELSE IF x.t = "str" /\ IsDecimal(strip(x.s)) THEN <<float(strip(x.s))>>
    ELSE <<>>

\* try: float(x or 0) / except: 0.0
FloatOrZero(x) ==
    IF ~Truthy(x) \/ to_float(x) = <<>> THEN Zero ELSE to_float(x)[1]

(***************************************************************************)
(* nutrition/constants.py                                                  *)
(***************************************************************************)
\* TARGET_NUTRIENTS.values()
TARGET_NAMES ==
    <<"Sodium", "Protein", "Carbs", "Fat", "Sat Fat", "Mono Fat", "Poly Fat",
      "Sugar", "Potassium", "Calcium", "Magnesium", "Iron", "Calories">>

(***************************************************************************)
(* nutrition/services/nutrients.py                                         *)
(***************************************************************************)
ENERGY_KEYS_KCAL == <<"Calories", "Energy (kcal)", "Energy", "calories", "Energy kcal">>

ENERGY_KEYS_KJ == <<"Energy (kJ)", "Energy (kj)", "kJ", "Kilojoules">>

\* Usable with the truth value of v in place of the three exclusions
UsableTruthy(v) == Truthy(v)

\* v not in (None, "", "NA")
Usable(v) == v.t # "none" /\ ~(v.t = "str" /\ v.s \in {"", "NA"})

\* the float of the first key of keys[i..] whose value is usable and converts
RECURSIVE FirstFloat(_, _, _)
FirstFloat(n, keys, i) ==
    IF i > Len(keys) THEN <<>>
    ELSE IF Usable(Get(n, keys[i])) /\ to_float(Get(n, keys[i])) # <<>>
    THEN to_float(Get(n, keys[i]))
    ELSE FirstFloat(n, keys, i + 1)

KcalOrKj(kcal, kj) ==
    IF kcal # <<>> THEN kcal[1]
    ELSE IF kj # <<>> THEN RDiv(kj[1], D(4184, 1000))
    ELSE Zero

_coerce_calories_from_usda(n) ==
    IF DOMAIN n = {} THEN Zero
    ELSE KcalOrKj(FirstFloat(n, ENERGY_KEYS_KCAL, 1), FirstFloat(n, ENERGY_KEYS_KJ, 1))

\* the canonical keys filled from synonyms, each with its synonyms in order
ALIASES ==
    <<  <<"Carbs", <<"Carbohydrate, by difference", "Carbohydrate", "Carbohydrates">> >>,
        <<"Fat", <<"Total lipid (fat)", "Total Fat">> >>,
        <<"Sat Fat", <<"Fatty acids, total saturated", "Saturated Fat">> >>,
        <<"Mono Fat", <<"Fatty acids, total monounsaturated">> >>,
        <<"Poly Fat", <<"Fatty acids, total polyunsaturated">> >>,
        <<"Sugar", <<"Sugars, total including NLEA", "Sugars, total", "Sugar">> >>,
        <<"Sodium", <<"Sodium, Na">> >>,
        <<"Potassium", <<"Potassium, K">> >>,
        <<"Calcium", <<"Calcium, Ca">> >>,
        <<"Magnesium", <<"Magnesium, Mg">> >>,
        <<"Iron", <<"Iron, Fe">> >>,
        <<"Phosphorus", <<"Phosphorus, P">> >>  >>

\* the first key of keys[i..] that is in n, if any
RECURSIVE FirstPresent(_, _, _)
FirstPresent(n, keys, i) ==
    IF i > Len(keys) THEN <<>>
    ELSE IF keys[i] \in DOMAIN n THEN <<keys[i]>>
    ELSE FirstPresent(n, keys, i + 1)

\* if canon not in n: adopt the first synonym present
Adopt(n, canon, found) ==
    IF canon \notin DOMAIN n /\ found # <<>>
    THEN Put(n, canon, PyNum(FloatOrZero(n[found[1]])))
    ELSE n

RECURSIVE ApplyAliases(_, _)
ApplyAliases(n, i) ==
    IF i > Len(ALIASES) THEN n
    ELSE ApplyAliases(Adopt(n, ALIASES[i][1], FirstPresent(n, ALIASES[i][2], 1)), i + 1)

wanted ==
    {"Sodium", "Potassium", "Phosphorus", "Calcium", "Magnesium", "Protein", "Carbs",
     "Fat", "Sat Fat", "Mono Fat", "Poly Fat", "Sugar", "Iron", "Calories"}

\* ForceNumeric over the keys the bag already has
ForceNumericPresent(n) ==
    [k \in DOMAIN n |-> IF k \in wanted THEN PyNum(FloatOrZero(Get(n, k))) ELSE n[k]]

\* for k in wanted: n[k] = float(n.get(k, 0.0) or 0.0), 0.0 when that raises
ForceNumeric(n) ==
    [k \in DOMAIN n \cup wanted |-> IF k \in wanted THEN PyNum(FloatOrZero(Get(n, k))) ELSE n[k]]

\* if not n.get("Calories"): n["Calories"] = _coerce_calories_from_usda(n)
CaloriesFirst(n) ==
    IF Truthy(Get(n, "Calories")) THEN n
    ELSE Put(n, "Calories", PyNum(_coerce_calories_from_usda(n)))

normalize_per100(n) == ForceNumeric(ApplyAliases(CaloriesFirst(n), 1))

(***************************************************************************)
(* app.py: the scaling helpers of the diary endpoints.                     *)
(***************************************************************************)
\* _per100(n): the wanted keys, a value kept only when it is an int or float
_per100(n) ==
    [k \in wanted |-> IF Get(n, k).t = "num" THEN Get(n, k) ELSE PyNum(Zero)]

\* try: float(v) * grams / 100.0 / except: 0.0
Scaled(v, grams) ==
    IF to_float(v) = <<>> THEN Zero ELSE RDiv(RMul(to_float(v)[1], grams), Num(100))

_scale(n100, grams) == [k \in DOMAIN n100 |-> PyNum(Scaled(n100[k], grams))]

_nutrients_for_grams(per100, grams) == [k \in DOMAIN per100 |-> PyNum(Scaled(per100[k], grams))]

(***************************************************************************)
(* app_blueprints/daily.py: the scaling of a diary row.                    *)
(***************************************************************************)
\* round(x, 2): the nearest hundredth.  x is held exactly here and as a binary float in the program,
\* so a value exactly halfway between two hundredths may go either way.
Nearest(q, rem, d) ==
    IF 2 * rem < d THEN {Rat(q, 100)}
    ELSE IF 2 * rem > d THEN {Rat(q + 1, 100)}
    ELSE {Rat(q, 100), Rat(q + 1, 100)}

Hundredths(y) == Nearest(y.n \div y.d, y.n % y.d, y.d)

round2(x) == Hundredths(RMul(x, Num(100)))

\* the bags over names[i..] whose value at every name is one of round2
RECURSIVE RoundedFrom(_, _, _)
RoundedFrom(p, grams, i) ==
    IF i > Len(TARGET_NAMES) THEN {<<>>}
    ELSE {Put(rest, TARGET_NAMES[i], PyNum(r)) :
            rest \in RoundedFrom(p, grams, i + 1),
            r \in round2(RDiv(RMul(Get(p, TARGET_NAMES[i]).v, grams), Num(100)))}

\* per100 = normalize_per100(per100); scaled = {name: round(.., 2) for name in ..}
daily_scaled(per100, grams) == RoundedFrom(normalize_per100(per100), grams, 1)

(***************************************************************************)
(* The inputs enumerated.                                                  *)
(***************************************************************************)
Raw(gw, amt, mu, mod) == [gramWeight |-> gw, amount |-> amt, measureUnit |-> mu, modifier |-> mod]

RawPool ==
    <<  Raw(<<Num(240)>>, <<Num(1)>>, "cup", ""),
        Raw(<<Num(100)>>, <<Num(1)>>, "cup", "chopped"),
        Raw(<<Num(4)>>, <<Num(1)>>, "Cracker", ""),
        Raw(<<Num(15)>>, <<Num(1)>>, "tablespoon", ""),
        Raw(<<Num(50)>>, <<Num(1)>>, "", "large"),
        Raw(<<D(35, 10)>>, <<Num(1)>>, "clove", "")  >>

\* sequences without repetition of at most MaxEntries raw records of the pool
RawTables ==
    {<<>>} \cup
    UNION { {[i \in 1..k |-> RawPool[f[i]]] :
                f \in {g \in [1..k -> 1..Len(RawPool)] :
                         \A a, b \in 1..k : a # b => g[a] # g[b]}} :
            k \in 1..MaxEntries }

PortionsOf(raw) == normalize_portions(recipe_portions([foodPortions |-> raw]))

Tables == {PortionsOf(raw) : raw \in RawTables}

CoreTables == { PortionsOf(<<RawPool[1]>>),
                PortionsOf(<<RawPool[5], RawPool[3]>>) }

Hit(id, dt) == [fdcId |-> id, dataType |-> dt]

NoService == [search |-> <<>>, detail |-> <<>>]

\* a service that knows the name under its first query
RiceService ==
    [search |-> ("Cooked Rice" :> <<Hit("31", "Branded"), Hit("11", "Foundation"),
                                    Hit("21", "SR Legacy")>>),
     detail |-> ("31" :> <<[foodPortions |-> <<Raw(<<Num(140)>>, <<Num(1)>>, "cup", "")>>]>>
                 @@ "11" :> <<[foodPortions |-> <<>>]>>
                 @@ "21" :> <<[foodPortions |-> <<Raw(<<Num(158)>>, <<Num(1)>>, "cup", ""),
                                                   Raw(<<>>, <<Num(1)>>, "oz", ""),
                                                   Raw(<<Num(12)>>, <<>>, "tablespoon", "")>>]>>)]

\* a service that knows the food only under the name's variant
RomaService ==
    [search |-> ("tomato, roma" :> <<Hit("41", "SR Legacy")>>),
     detail |-> ("41" :> <<[foodPortions |-> <<Raw(<<Num(62)>>, <<Num(1)>>, "tomato", ""),
                                                   Raw(<<Num(9)>>, <<Num(1)>>, "slice", ""),
                                                   Raw(<<Zero>>, <<Num(1)>>, "tablespoon", "")>>]>>)]

\* a service that has clove portions for garlic
GarlicService ==
    [search |-> ("Garlic" :> <<Hit("51", "Foundation")>>),
     detail |-> ("51" :> <<[foodPortions |-> <<Raw(<<Num(5)>>, <<Num(1)>>, "clove", ""),
                                                   Raw(<<Num(9)>>, <<Num(1)>>, "tbsp", "")>>]>>)]

NoRegistry == [items |-> <<>>, defaults |-> <<>>]

SampleRegistry ==
    [items    |-> << [pattern |-> {"bran"}, units |-> ("cup" :> Num(158) @@ "g" :> Num(1))] >>,
     defaults |-> ("whole" :> [isdict |-> FALSE, v |-> Num(50), d |-> <<>>]
                   @@ "cup" :> [isdict |-> TRUE, v |-> Zero,
                                d |-> << <<"flour", Num(120)>>, <<"water_like", Num(240)>> >>])]

\* nutrient records per 100 g, as a food of the session list may hold them
RiceBag == "Calories" :> PyNum(Num(130)) @@ "Sodium" :> PyNum(Num(1))

GarlicBag ==
    "Energy (kJ)" :> PyStr("418.4") @@ "Sodium, Na" :> PyNum(Num(17))
    @@ "Protein" :> PyNum(D(65, 10)) @@ "Carbohydrate, by difference" :> PyStr("33")

CrackerBag ==
    "Calories" :> PyNum(Num(421)) @@ "Sodium" :> PyNum(Num(941))
    @@ "Carbs" :> PyStr("abc") @@ "Fat" :> PyNone

EmptyBag == [k \in {} |-> PyNone]

Worlds ==
    {  <<"Garlic", GarlicService, SampleRegistry, GarlicBag>>,
       <<"Saltine Crackers", NoService, NoRegistry, CrackerBag>>,
       <<"Cooked Rice", RiceService, NoRegistry, RiceBag>>,
       <<"Roma Tomato", RomaService, NoRegistry, EmptyBag>>,
       <<"Oat  Bran", NoService, SampleRegistry, RiceBag>>  }

RECURSIVE Repeat(_, _)
Repeat(c, k) == IF k = 0 THEN "" ELSE c \o Repeat(c, k - 1)

\* texts of non-negative decimal numbers
PlainNumbers == {"0", "1", "2", "1.5"}

NumStrs == PlainNumbers \cup {"", "1.", "1/2"}

UnitWords == {"", "g", "G", "gram", "Grams", "cup", "Cups", "clove", "tbsp",
              "tablespoons", "lb", "oz", "lbs", "pound", "Pounds", "ounce", "ounces",
              "crackers", "whole", "slice", "x", "banana boat"}

Suffixes == UnitWords \cup {Repeat("/", k) : k \in 1..MaxSlashes}

Pads == {"", " "}

Typed == [lead : Pads, num : NumStrs, gap : {Repeat(" ", k) : k \in 0..MaxSpaces},
          suf : Suffixes, trail : Pads]

\* the texts tried against every table and world
CoreTyped == {t \in Typed : /\ t.lead = "" /\ t.trail = ""
                            /\ t.num \in {"", "1", "2"}
                            /\ t.gap = (IF t.num = "" \/ t.suf = "" THEN "" ELSE " ")}

TextOf(t) == t.lead \o t.num \o t.gap \o t.suf \o t.trail

(***************************************************************************)
(* The state machine: one call of grams_from_qty_text on enumerated        *)
(* inputs: every text against a few tables, and the core texts against     *)
(* every table, in every world.                                            *)
(***************************************************************************)
Init ==
    /\ NoStores
    /\ \E w \in Worlds : name = w[1] /\ usda = w[2] /\ UNIT_CONV = w[3] /\ bag = w[4]
    /\ \/ typed \in Typed /\ typed.lead = typed.trail /\ portions \in CoreTables
       \/ typed \in CoreTyped /\ portions \in Tables
    /\ text = TextOf(typed)
    /\ result = <<>>
    /\ calls = <<>>
    /\ derived = <<>>
    /\ amounts = <<>>
    /\ out = <<>>
    /\ pc = "start"

\* the call returns r; a diary row with positive grams is scaled and stored
\* (daily.py 338-350), any other leaves no nutrients
Return(r, fn, scaled) ==
    /\ result' = <<[grams |-> r.grams, unit |-> r.unit, qty |-> r.qty]>>
    /\ calls' = r.calls
    /\ \E sc \in (IF scaled /\ r.grams.n > 0 THEN daily_scaled(bag, r.grams) ELSE {<<>>}) :
          out' = IF scaled /\ r.grams.n > 0 THEN <<sc>> ELSE <<>>
    /\ pc' = fn
    /\ UNCHANGED <<name, text, typed, portions, usda, UNIT_CONV, derived, bag, amounts,
                   storeVars>>

\* a row of the /daily form: quantity_parser.grams_from_qty_text(name, text,
\* portions), then the nutrients of the grams resolved
ResolveGrams ==
    /\ pc = "start"
    /\ Return(grams_from_qty_text(usda, UNIT_CONV, name, text, portions),
              "quantity_parser", TRUE)

\* units.grams_from_qty_text(name, text, portions)
ResolveGramsUnits ==
    /\ pc = "start"
    /\ Return(units_grams_from_qty_text(name, text, portions), "units", FALSE)

Next == ResolveGrams \/ ResolveGramsUnits

Spec == Init /\ [][Next]_vars

(***************************************************************************)
(* Portion tables: derive_common_volumes_simple on a given table, then the *)
(* lookup of a unit in the derived table.                                  *)
(***************************************************************************)
NoText == [lead |-> "", num |-> "", gap |-> "", suf |-> "", trail |-> ""]

GivenWeights == {Num(15), Num(9), D(35, 10), Num(1)}

GivenLabels == {"", "1 tbsp (1/16 cup)"}

GivenUnits == {"tbsp", "tablespoon", "tsp", "teaspoon", "cup", "slice"}

GivenTables ==
    {<<Entry("0", l, u, w, <<>>)>> : l \in GivenLabels, u \in GivenUnits, w \in GivenWeights}
    \cup {<<Entry("0", "", "tbsp", w, <<>>), Entry("1", "1 cup", "cup", Num(200), <<>>)>> :
            w \in GivenWeights}
    \cup {<<Entry("0", "1 tsp", "tsp", Num(4), <<>>), Entry("1", "", "tbsp", w, <<>>)>> :
            w \in GivenWeights}
    \cup {<<Entry("0", "", "tablespoon", Num(12), <<>>), Entry("1", "", "tbsp", w, <<>>)>> :
            w \in GivenWeights}
    \cup {<<Entry("0", "", "cup", Num(200), <<>>), Entry("1", "", "teaspoon", Num(6), <<>>),
            Entry("2", "", "tsp", w, <<>>)>> : w \in GivenWeights}

AskedUnits == {"tsp", "cup", "tbsp", "Teaspoons", "cups", "slice", "Slice", "slices", "clove"}

InitPortions ==
    /\ NoStores
    /\ portions \in GivenTables
    /\ derived = <<>>
    /\ text = ""
    /\ result = <<>>
    /\ pc = "given"
    /\ name = "" /\ typed = NoText /\ usda = NoService /\ UNIT_CONV = NoRegistry
    /\ calls = <<>> /\ bag = EmptyBag /\ amounts = <<>> /\ out = <<>>

DeriveCommonVolumes ==
    /\ pc = "given"
    /\ derived' = derive_common_volumes_simple(portions)
    /\ pc' = "derived"
    /\ UNCHANGED <<name, text, typed, portions, usda, UNIT_CONV, result, calls,
                   bag, amounts, out,
                   storeVars>>

ResolveUnit ==
    /\ pc = "derived"
    /\ \E u \in AskedUnits :
          /\ text' = u
          /\ result' = portion_match_from_labels(derived, u)
    /\ pc' = "resolved"
    /\ UNCHANGED <<name, typed, portions, usda, UNIT_CONV, calls, derived,
                   bag, amounts, out,
                   storeVars>>

NextPortions == DeriveCommonVolumes \/ ResolveUnit

SpecPortions == InitPortions /\ [][NextPortions]_vars

(***************************************************************************)
(* Nutrient records: normalize_per100 applied to a raw record, and again   *)
(* to what it returned.                                                    *)
(***************************************************************************)
\* the key left out, or present with one of the values
Opt(k, values) == {EmptyBag} \cup {k :> v : v \in values}

RawBags ==
    {a @@ b @@ c @@ d @@ e @@ f @@ g @@ h @@ i :
        a \in Opt("Calories", {PyNum(Zero), PyStr(""), PyStr("abc"), PyNum(Num(130))}),
        b \in Opt("Energy", {PyStr("NA"), PyNum(Num(50)), PyStr("52.5")}),
        c \in Opt("Energy (kJ)", {PyStr("418.4"), PyStr("x")}),
        d \in Opt("Carbs", {PyNone, PyNum(Num(12))}),
        e \in Opt("Carbohydrate", {PyStr("abc"), PyNum(Num(7))}),
        f \in Opt("Carbohydrates", {PyNum(Num(3))}),
        g \in Opt("Sodium", {PyStr("5")}),
        h \in Opt("Sodium, Na", {PyNum(Zero), PyNum(Num(1))}),
        i \in Opt("Fiber", {PyNum(Num(2))})}

InitNormalize ==
    /\ NoStores
    /\ bag \in RawBags
    /\ out = <<>>
    /\ pc = "raw"
    /\ name = "" /\ text = "" /\ typed = NoText /\ portions = <<>> /\ usda = NoService
    /\ UNIT_CONV = NoRegistry /\ result = <<>> /\ calls = <<>> /\ derived = <<>>
    /\ amounts = <<>>

\* normalize_per100 of the record, or of the last bag it returned
Normalize ==
    /\ Len(out) < MaxPasses
    /\ out' = Append(out, normalize_per100(IF out = <<>> THEN bag ELSE out[Len(out)]))
    /\ pc' = "normalized"
    /\ UNCHANGED <<name, text, typed, portions, usda, UNIT_CONV, result, calls,
                   derived, bag, amounts,
                   storeVars>>

NextNormalize == Normalize

SpecNormalize == InitNormalize /\ [][NextNormalize]_vars

(***************************************************************************)
(* Scaling: each scaler of the program applied to a per-100 g bag for the  *)
(* amounts g1, g2 and g1 + g2.                                             *)
(***************************************************************************)
Grams == {Zero, D(3, 10), Num(50), Num(100), Num(260)}

DecimalBag ==
    "Sodium" :> PyNum(D(1234, 1000)) @@ "Calories" :> PyNum(D(5, 10))
    @@ "Phosphorus" :> PyNum(Num(115))

FiberBag == "Sodium" :> PyNum(Num(1)) @@ "Fiber" :> PyNum(D(25, 10))

\* per-100 g bags: every value a number
ScaleBags ==
    {RiceBag, DecimalBag, FiberBag, _per100(CrackerBag), _per100(EmptyBag),
     _per100(normalize_per100(GarlicBag))}

InitScale ==
    /\ NoStores
    /\ bag \in ScaleBags
    /\ \E g1, g2 \in Grams : amounts = <<g1, g2, RAdd(g1, g2)>>
    /\ out = <<>>
    /\ pc = "per100"
    /\ name = "" /\ text = "" /\ typed = NoText /\ portions = <<>> /\ usda = NoService
    /\ UNIT_CONV = NoRegistry /\ result = <<>> /\ calls = <<>> /\ derived = <<>>

\* the scaler fn has produced sc for the next amount
ScaledBy(fn, sc) ==
    /\ pc \in {"per100", fn}
    /\ out' = Append(out, sc)
    /\ pc' = fn
    /\ UNCHANGED <<name, text, typed, portions, usda, UNIT_CONV, result, calls,
                   derived, bag, amounts,
                   storeVars>>

\* app.py: _scale(n100, grams) of the diary endpoints
ScaleEntry ==
    /\ Len(out) < Len(amounts)
    /\ ScaledBy("_scale", _scale(bag, amounts[Len(out) + 1]))

\* app.py: _nutrients_for_grams(per100, grams)
NutrientsForGrams ==
    /\ Len(out) < Len(amounts)
    /\ ScaledBy("_nutrients_for_grams", _nutrients_for_grams(bag, amounts[Len(out) + 1]))

\* daily.py: a row whose grams are positive is scaled and rounded
DailyScale ==
    /\ Len(out) < Len(amounts)
    /\ amounts[Len(out) + 1].n > 0
    /\ \E sc \in daily_scaled(bag, amounts[Len(out) + 1]) : ScaledBy("daily", sc)

NextScale == ScaleEntry \/ NutrientsForGrams \/ DailyScale

SpecScale == InitScale /\ [][NextScale]_vars

(***************************************************************************)
(* Properties of the parsers.                                              *)
(***************************************************************************)
Done == pc # "start"

\* the triple a parser returned: units.py wraps unit and quantity, which may be None
Returned(g, u, q) ==
    result = IF pc = "units" THEN <<[grams |-> g, unit |-> <<u>>, qty |-> <<q>>]>>
             ELSE <<[grams |-> g, unit |-> u, qty |-> q]>>

\* the text was typed as a decimal number, optional white space and the letter g
TypedGramsLiteral == typed.num \in PlainNumbers /\ typed.suf \in {"g", "G"}

\* C1: for every food name and portion table, a text '<n>g' (n a non-negative
\* decimal, optional white space before the g, any letter case) resolves to
\* exactly (n, "g", n), and no tier of the resolution chain is consulted.
C1_GramsLiteral ==
    (Done /\ TypedGramsLiteral) =>
        /\ Returned(float(typed.num), "g", float(typed.num))
        /\ calls = <<>>

C1_Witness ==
    /\ pc = "quantity_parser" /\ typed.num = "1.5" /\ typed.gap = " " /\ typed.suf = "G"
    /\ Len(portions) = 2 /\ name = "Cooked Rice"
    /\ result[1].grams = Rat(3, 2) /\ result[1].unit = "g"

\* the unit word typed, as each parser names it in its result
UnitAsked == IF pc = "units" THEN lower(typed.suf) ELSE Canonical(lower(typed.suf))

\* a and b are the same unit or spellings of one synonym group
SameUnit(a, b) ==
    \/ a = b
    \/ \E k \in 1..Len(UNIT_SYNONYMS) :
          {a, b} \subseteq ({UNIT_SYNONYMS[k][1]} \cup UNIT_SYNONYMS[k][2])

\* the entries of the table whose unit matches the unit asked
UnitMatches == {i \in 1..Len(portions) : SameUnit(portions[i].unit, UnitAsked)}

\* the text was typed as a positive decimal, white space and a unit word
TypedNumberUnit ==
    /\ typed.num \in PlainNumbers /\ float(typed.num).n > 0
    /\ typed.gap # ""
    /\ typed.suf \in UnitWords \ {"", "banana boat"}

\* C2: for a text '<n> <unit>' with n > 0 and a table holding an entry whose
\* unit matches the unit asked (exactly or through its synonym group), the
\* result is (n * w, unit, n) with w the gram weight of the first such entry
\* in table order; '1.5 cup' with one cup entry of 240 g gives (360, 'cup', 1.5).
C2_FirstMatchingEntry ==
    /\ (Done /\ TypedNumberUnit /\ UnitMatches # {}) =>
          LET first == CHOOSE i \in UnitMatches : \A j \in UnitMatches : i <= j
          IN  /\ portions[first].gramWeight.n > 0
              /\ Returned(RMul(float(typed.num), portions[first].gramWeight),
                          UnitAsked, float(typed.num))
    /\ (Done /\ text = "1.5 cup" /\ portions = PortionsOf(<<RawPool[1]>>)) =>
          Returned(Num(360), "cup", Rat(3, 2))
    /\ (pc = "quantity_parser" /\ text = "1.5 cup" /\ portions = PortionsOf(<<RawPool[1]>>)
           /\ bag = RiceBag) =>
          /\ Len(out) = 1
          /\ out[1]["Calories"] = PyNum(Num(468))
          /\ out[1]["Sodium"] = PyNum(Rat(36, 10))

C2_Witness ==
    /\ pc = "quantity_parser" /\ text = "2 Cups"
    /\ portions = PortionsOf(<<RawPool[2], RawPool[1]>>)
    /\ result[1].grams = Num(200) /\ result[1].unit = "cup"
\* the given table has the single entry {unit: 'tbsp', gramWeight: w}
OnlyTbsp == Len(portions) = 1 /\ portions[1].unit = "tbsp"

\* the unit resolved to an entry of w grams per unit
Resolved(w) == result # <<>> /\ result[1].gramWeight = w

\* C6: from a table whose only entry is {unit 'tbsp', gramWeight w}, after
\* derive_common_volumes_simple the unit 'tsp' resolves to w / 3 grams, 'cup'
\* to 16 * w grams and 'tbsp' still to w: 5 and 240 for w = 15.
C6_DerivedVolumes ==
    (pc = "resolved" /\ OnlyTbsp) =>
        /\ text = "tsp" => Resolved(RDiv(portions[1].gramWeight, Num(3)))
        /\ text = "cup" => Resolved(RMul(Num(16), portions[1].gramWeight))
        /\ text = "tbsp" => Resolved(portions[1].gramWeight)
        /\ (portions[1].gramWeight = Num(15) /\ text = "tsp") => Resolved(Num(5))
        /\ (portions[1].gramWeight = Num(15) /\ text = "cup") => Resolved(Num(240))

C6_Witness ==
    /\ pc = "resolved" /\ text = "cup"
    /\ portions = <<Entry("0", "", "tbsp", Num(15), <<>>)>>
    /\ Len(derived) = 3
    /\ result[1].gramWeight = Num(240) /\ result[1].unit = "cup"

\* C7: normalize_per100 is idempotent: applied to the bag it returned for
\* any raw record (canonical, synonym, kcal and kJ keys, missing, empty, zero
\* and non-numeric values) it returns that bag again.
C7_NormalizeIdempotent ==
    \A i \in 2..Len(out) : out[i] = out[i - 1]

C7_Witness ==
    /\ Len(out) = 2
    /\ Get(bag, "Calories") = PyStr("abc") /\ Get(bag, "Energy") = PyNum(Num(50))
    /\ Get(bag, "Carbohydrate") = PyNum(Num(7)) /\ "Carbs" \notin DOMAIN bag
    /\ out[2]["Calories"] = PyNum(Zero) /\ out[2]["Carbs"] = PyNum(Num(7))
    /\ out[2]["Carbohydrate"] = PyNum(Num(7))

\* the three properties of a scaler, key by key over the keys it returns
Additive ==
    Len(out) = 3 =>
        \A k \in DOMAIN out[3] : out[3][k].v = RAdd(out[1][k].v, out[2][k].v)

ZeroAtZero ==
    \A i \in 1..Len(out) :
        amounts[i] = Zero => \A k \in DOMAIN out[i] : out[i][k] = PyNum(Zero)

SameAtHundred ==
    \A i \in 1..Len(out) :
        amounts[i] = Num(100) =>
            \A k \in DOMAIN out[i] : out[i][k].v = (IF k \in DOMAIN bag THEN bag[k].v ELSE Zero)

\* _scale and _nutrients_for_grams, which do not round, have all three
ExactScalersLinear ==
    pc \in {"_scale", "_nutrients_for_grams"} => (Additive /\ ZeroAtZero /\ SameAtHundred)

\* C8: scaling is linear in grams: for every per-100 g bag p and amounts g1,
\* g2 >= 0, scale(p, g1 + g2) = scale(p, g1) + scale(p, g2) key by key,
\* scale(p, 0) is all zero and scale(p, 100) is p.
C8_ScaleIsLinear ==
    Additive /\ ZeroAtZero /\ SameAtHundred

\* the default unit of a table: the first unit of the priority order present
\* in it, else the first unit it names, else "whole"
DefaultUnitOf(table) ==
    LET named == {i \in 1..Len(table) : table[i].unit # ""}
        prio  == {k \in 1..Len(priority) : \E i \in named : table[i].unit = priority[k]}
    IN  IF prio # {} THEN priority[CHOOSE k \in prio : \A j \in prio : k <= j]
        ELSE IF named # {} THEN table[CHOOSE i \in named : \A j \in named : i <= j].unit
        ELSE "whole"

\* the entries of the table whose unit is the default unit
DefaultEntries == {i \in 1..Len(portions) : portions[i].unit = DefaultUnitOf(portions)}

\* the text was typed as slashes only
TypedSlashes == typed.num = "" /\ typed.suf \in {Repeat("/", k) : k \in 1..MaxSlashes}

Spellings ==
    {UnitAsked} \cup UNION { {UNIT_SYNONYMS[k][1]} \cup UNIT_SYNONYMS[k][2] :
                             k \in {j \in 1..Len(UNIT_SYNONYMS) :
                                      SameUnit(UnitAsked, UNIT_SYNONYMS[j][1])} }

\* no entry of the table matches the unit asked, by unit or by label
NoEntryForUnit ==
    /\ UnitMatches = {}
    /\ \A i \in 1..Len(portions) :
          \A c \in Spellings : ~Contains(lower(portions[i].label), c)

\* C4: when no table entry matches the unit asked and the food name matches a
\* rule of the heuristic table that defines the unit, the result is qty times
\* the heuristic weight; alternates and generic constants are not consulted:
\* ('Garlic', '2 clove', []) gives 6 g and ('Garlic', '1 tbsp', []) gives 8.5 g.
C4_HeuristicBeforeGeneric ==
    /\ (/\ pc = "quantity_parser" /\ TypedNumberUnit /\ NoEntryForUnit
        /\ typical_grams_for_unit(name, UnitAsked) # <<>>) =>
          /\ Returned(RMul(typical_grams_for_unit(name, UnitAsked)[1], float(typed.num)),
                      UnitAsked, float(typed.num))
          /\ \A i \in 1..Len(calls) : calls[i] \notin {"alternate", "generic"}
    /\ (pc = "quantity_parser" /\ name = "Garlic" /\ portions = <<>>) =>
          /\ text = "2 clove" => result[1].grams = Num(6)
          /\ text = "1 tbsp" => result[1].grams = Rat(85, 10)

C4_Witness ==
    /\ pc = "quantity_parser" /\ name = "Garlic" /\ text = "1 tbsp" /\ portions = <<>>
    /\ result[1].grams = Rat(17, 2)
    /\ calls = <<"typical">>

\* the text is none of: number and g, slashes, number and slashes, a number,
\* number and one word
TypedUnrecognised ==
    \/ typed.suf = "banana boat"
    \/ typed.num = "1."
    \/ typed.num = "" /\ typed.suf \in UnitWords \ {""}

\* C5: a text that matches none of the recognised patterns (e.g. 'banana
\* boat') resolves, for every food name and table, to 0 grams with an empty unit.
C5_UnrecognisedIsZero ==
    (pc = "quantity_parser" /\ TypedUnrecognised) =>
        /\ Returned(Zero, "", Zero)
        /\ calls = <<>>

C5_Witness ==
    /\ pc = "quantity_parser" /\ text = "banana boat" /\ Len(portions) = 2
    /\ result[1] = [grams |-> Zero, unit |-> "", qty |-> Zero]

\* the text was typed as a decimal number and the word gram or grams
TypedGramWord == typed.num \in PlainNumbers /\ lower(typed.suf) \in {"gram", "grams"}

\* C9: a text '<n> gram', '<n> grams' or '<n>grams' resolves like '<n>g': to
\* (n, "g", n) at once, for every food name and table, no lookup made.
C9_GramWordsAreGrams ==
    (Done /\ TypedGramWord) =>
        /\ Returned(float(typed.num), "g", float(typed.num))
        /\ calls = <<>>

\* the text was typed as a decimal number followed by slashes
TypedNumberSlashes ==
    typed.num \in PlainNumbers /\ typed.suf \in {Repeat("/", k) : k \in 1..MaxSlashes}

\* C10: a text '<n>' followed by one or more slashes resolves n default units:
\* the same triple as the bare number '<n>', for every food name and table.
C10_NumberSlashesAsNumber ==
    (pc = "quantity_parser" /\ TypedNumberSlashes) =>
        LET bare == grams_from_qty_text(usda, UNIT_CONV, name, typed.num, portions)
        IN  /\ Returned(bare.grams, bare.unit, bare.qty)
            /\ result[1].qty = float(typed.num)
            /\ result[1].unit = DefaultUnitOf(portions)

C10_Witness ==
    /\ pc = "quantity_parser" /\ text = "2//"
    /\ portions = PortionsOf(<<RawPool[5], RawPool[3]>>)
    /\ result[1] = [grams |-> Num(8), unit |-> "cracker", qty |-> Num(2)]

\* the text asks for default units: a bare number, slashes, or number and slashes
TypedDefaultUnits ==
    \/ TypedSlashes
    \/ TypedNumberSlashes
    \/ typed.num \in PlainNumbers /\ typed.suf = ""

\* the units of the priority order that some entry of the table has
PriorityUnitsPresent ==
    {k \in 1..Len(priority) : \E i \in 1..Len(portions) : portions[i].unit = priority[k]}

\* C11 as stated: the first priority unit present wins; with none present the
\* unit of the table's first entry is used; an empty table gives 'whole'.
C11_FirstEntryUnit ==
    (pc = "quantity_parser" /\ TypedDefaultUnits) =>
        result[1].unit =
            IF PriorityUnitsPresent # {}
            THEN priority[CHOOSE k \in PriorityUnitsPresent :
                             \A j \in PriorityUnitsPresent : k <= j]
            ELSE IF portions # <<>> THEN portions[1].unit
            ELSE "whole"

\* C11: for a default-units quantity the unit is the first unit of the
\* priority order (cracker, slice, cup, tbsp, tsp, whole, piece) that some
\* entry has, whatever its position; with none present, the unit of the first
\* entry that names a unit (its unit is not empty); 'whole' when the table is
\* empty or no entry names a unit.
C11_DefaultUnit ==
    (pc = "quantity_parser" /\ TypedDefaultUnits) =>
        /\ result[1].unit = DefaultUnitOf(portions)
        /\ PriorityUnitsPresent # {} =>
              result[1].unit = priority[CHOOSE k \in PriorityUnitsPresent :
                                           \A j \in PriorityUnitsPresent : k <= j]
        /\ (PriorityUnitsPresent = {} /\ \A i \in 1..Len(portions) : portions[i].unit = "") =>
              result[1].unit = "whole"

C11_Witness ==
    /\ pc = "quantity_parser" /\ text = "2"
    /\ portions = PortionsOf(<<RawPool[5], RawPool[6]>>)
    /\ portions[1].unit = "" /\ portions[2].unit = "clove"
    /\ result[1] = [grams |-> Num(7), unit |-> "clove", qty |-> Num(2)]

\* the call went through the chain: a unit was resolved for a positive quantity
ThroughChain ==
    /\ pc = "quantity_parser"
    /\ ~TypedGramsLiteral
    /\ TypedNumberUnit \/ (TypedDefaultUnits /\ result[1].qty.n > 0)

\* the weight of the entry, when there is one and it is usable: positive
Usable1(entry) == IF entry # <<>> /\ entry[1].gramWeight.n > 0 THEN <<entry[1].gramWeight>> ELSE <<>>

\* grams per unit of u from each tier in order: own table, heuristic table,
\* alternate food, generic volumes; <<>> where the tier yields none
TierYields(u) ==
    <<  Usable1(portion_match_from_labels(portions, u)),
        typical_grams_for_unit(name, u),
        Usable1(AltMatch(find_alt_portions_for_name(usda, name), u)),
        IF lower(strip(u)) \in DOMAIN GENERIC_VOL THEN <<GENERIC_VOL[lower(strip(u))]>> ELSE <<>>  >>

TierNames == <<"portions", "typical", "alternate", "generic">>

\* the tiers that yield a usable weight
Yielding(yields) == {k \in 1..4 : yields[k] # <<>>}

First(tiers) == CHOOSE k \in tiers : \A j \in tiers : k <= j

\* the mass constant of a typed lb / oz, the last tier
MassGrams(u, q) ==
    IF TypedNumberUnit /\ u = "lb" THEN RMul(q, D(453592, 1000))
    ELSE IF TypedNumberUnit /\ u = "oz" THEN RMul(q, D(283495, 10000))
    ELSE Zero

OrMass(u, q, reg) == IF reg.n > 0 THEN reg ELSE MassGrams(u, q)

\* what a strict escalation returns: the first tier that yields, then the
\* local registry (consulted between the generic and the mass constants),
\* then the mass constants
Escalated(u, q, yields) ==
    IF Yielding(yields) # {} THEN RMul(yields[First(Yielding(yields))][1], q)
    ELSE OrMass(u, q, grams_from_local_registry(UNIT_CONV, name, u, q))

\* the tiers consulted when the chain stops at the first tier of the set
\* (the own table only when there is one)
Consulted(tiers) ==
    {TierNames[k] : k \in {j \in 1..4 : /\ tiers # {} => j <= First(tiers)
                                        /\ j = 1 => portions # <<>>}}

ChainCalls == {calls[i] : i \in 1..Len(calls)} \cap {"portions", "typical", "alternate", "generic"}

StrictOver(u, q, yields) ==
    /\ result[1].grams = Escalated(u, q, yields)
    /\ ChainCalls = Consulted(Yielding(yields))

\* C12: the chain is a strict escalation: the grams come from the first tier
\* in the order own table, heuristic table, alternate food, generic volumes,
\* mass constants that yields a usable positive weight; a later tier is
\* consulted only when every earlier one yielded none, and an earlier tier
\* with no match or a non-positive weight never stops the escalation.
C12_StrictEscalation ==
    ThroughChain => StrictOver(result[1].unit, result[1].qty, TierYields(result[1].unit))

\* the tiers at which the program stops: the own table and the alternate
\* food stop the chain on a matching entry, whatever its weight
MatchedAt(u, yields) ==
    {k \in 1..4 : \/ k = 1 /\ portion_match_from_labels(portions, u) # <<>>
                  \/ k = 3 /\ AltMatch(find_alt_portions_for_name(usda, name), u) # <<>>
                  \/ k \in {2, 4} /\ yields[k] # <<>>}

\* the escalation as the program runs it
EscalationAsRun ==
    ThroughChain => ChainCalls = Consulted(MatchedAt(result[1].unit, TierYields(result[1].unit)))

\* a zero-weight tablespoon of the alternate food ends the chain before the
\* generic 15 g per tablespoon
C12_ZeroWeightAlternate ==
    /\ pc = "quantity_parser" /\ name = "Roma Tomato" /\ text = "2 tbsp"
    /\ Len(portions) = 1 /\ portions[1].unit = "cracker"
    /\ calls = <<"portions", "typical", "alternate", "registry">>
    /\ result[1] = [grams |-> Zero, unit |-> "tbsp", qty |-> Num(2)]

PoundWords == {"lb", "lbs", "pound", "pounds"}

OunceWords == {"oz", "ounce", "ounces"}

\* the text is '<n> lb' or '<n> oz' in one of their spellings, n > 0
TypedMass ==
    /\ typed.num \in PlainNumbers /\ float(typed.num).n > 0
    /\ lower(typed.suf) \in PoundWords \cup OunceWords

MassUnit == IF lower(typed.suf) \in PoundWords THEN "lb" ELSE "oz"

MassConstant == IF MassUnit = "lb" THEN D(453592, 1000) ELSE D(283495, 10000)

\* no tier before the mass constants yields a positive weight for unit u
NothingEarlier(u, q) ==
    /\ Yielding(TierYields(u)) = {}
    /\ grams_from_local_registry(UNIT_CONV, name, u, q).n <= 0

\* C13: a text '<n> lb' or '<n> oz' (also lbs, pound, pounds, ounce, ounces)
\* with n > 0 for which no earlier tier yields a positive weight resolves to
\* n * 453.592 g, respectively n * 28.3495 g, in unit 'lb' / 'oz'; a positive
\* mass quantity never resolves to 0 g.
C13_MassConstants ==
    (pc = "quantity_parser" /\ TypedMass) =>
        /\ result[1].unit = MassUnit
        /\ result[1].qty = float(typed.num)
        /\ result[1].grams.n > 0
        /\ NothingEarlier(MassUnit, float(typed.num)) =>
              /\ result[1].grams = RMul(float(typed.num), MassConstant)
              /\ calls[Len(calls)] = "mass"

C13_Witness ==
    /\ pc = "quantity_parser" /\ name = "Cooked Rice" /\ text = "2 ounces"
    /\ portions = PortionsOf(<<RawPool[3]>>)
    /\ result[1] = [grams |-> D(566990, 10000), unit |-> "oz", qty |-> Num(2)]
    /\ calls = <<"portions", "typical", "alternate", "generic", "registry", "mass">>

\* the amount typed is zero, in a text one of the five patterns accepts
TypedZero == typed.num = "0" /\ typed.suf # "banana boat"

\* no pattern accepts the text: unrecognised words, a malformed number, a
\* fraction, the empty text
TypedUnparseable ==
    \/ TypedUnrecognised
    \/ typed.num = "1/2"
    \/ typed.num = "" /\ typed.suf = ""

\* C14 as stated: a text whose amount is zero ('0', '0 cup', '0//', '0g') or
\* that is unparseable resolves to 0 grams with an empty unit, for every food
\* name and table.
C14_ZeroIsEmptyUnit ==
    (pc = "quantity_parser" /\ (TypedZero \/ TypedUnparseable)) =>
        /\ result[1].grams = Zero
        /\ result[1].unit = ""

\* the unit a zero amount is resolved in
ZeroUnit ==
    IF lower(typed.suf) = "g" THEN "g"
    ELSE IF TypedDefaultUnits THEN DefaultUnitOf(portions)
    ELSE Canonical(lower(typed.suf))

\* C14: a text whose amount is zero resolves to 0 grams and quantity 0 in the
\* unit the text names ('g', the default unit for '0' and '0//', the typed
\* unit for '0 cup'); an unparseable text resolves to (0, empty unit, 0) and
\* no tier is consulted; for every food name and table.
C14_ZeroOrUnparseable ==
    /\ (pc = "quantity_parser" /\ TypedZero) => Returned(Zero, ZeroUnit, Zero)
    /\ (pc = "quantity_parser" /\ TypedUnparseable) => Returned(Zero, "", Zero) /\ calls = <<>>

C14_Witness ==
    /\ pc = "quantity_parser" /\ name = "Saltine Crackers" /\ text = "0 tbsp"
    /\ portions = PortionsOf(<<RawPool[1]>>)
    /\ calls = <<"portions", "typical", "alternate", "generic", "registry">>
    /\ result[1] = [grams |-> Zero, unit |-> "tbsp", qty |-> Zero]

\* u and v are spellings of one unit: equal up to letter case and a plural s
SameSpelling(u, v) == rstrip_s(lower(strip(u))) = rstrip_s(lower(strip(v)))

\* C15: portion_match_from_labels lower-cases the unit asked and strips a
\* trailing 's' before it builds the candidates, so a unit and its plural or
\* differently cased spelling ('slice' / 'slices' / 'Slice') resolve to the
\* same entry of every table, also for units of no synonym group.
C15_PluralsResolveAlike ==
    pc = "resolved" =>
        \A v \in AskedUnits : SameSpelling(v, text) => portion_match_from_labels(derived, v) = result

\* letter case alone never changes the entry found
LetterCaseResolvesAlike ==
    pc = "resolved" =>
        \A v \in AskedUnits : lower(v) = lower(text) => portion_match_from_labels(derived, v) = result

\* 'slices' finds no entry in a table whose only entry is a slice
C15_PluralNotFound ==
    /\ pc = "resolved" /\ text = "slices"
    /\ Len(derived) = 1 /\ derived[1].unit = "slice"
    /\ result = <<>>
    /\ portion_match_from_labels(derived, "slice") = <<derived[1]>>

\* the entries of the given table that are tablespoons, and those that are teaspoons
Tablespoons == {i \in 1..Len(portions) : portions[i].unit \in {"tbsp", "tablespoon"}}

Teaspoons == {i \in 1..Len(portions) : portions[i].unit \in {"tsp", "teaspoon"}}

Least(S) == CHOOSE i \in S : \A j \in S : i <= j

\* the entries appended to the given table
Appended == SubSeq(derived, Len(portions) + 1, Len(derived))

UnitsAndWeights(es) == [i \in 1..Len(es) |-> <<es[i].unit, es[i].gramWeight>>]

\* C16: derive_common_volumes_simple only appends and runs at most one
\* direction: with a tbsp / tablespoon entry it appends exactly a tsp at 1/3
\* and a cup at 16 times the weight of the first such entry, and no tbsp even
\* when a tsp entry exists; with no tbsp but a tsp / teaspoon entry it appends
\* exactly one tbsp at 3 times the first one's weight; with neither the output
\* is the input.  The given entries are a prefix of the output, unchanged.
C16_OneDirectionAppends ==
    pc \in {"derived", "resolved"} =>
        /\ Len(derived) >= Len(portions)
        /\ SubSeq(derived, 1, Len(portions)) = portions
        /\ Tablespoons # {} =>
              UnitsAndWeights(Appended) =
                  <<  <<"tsp", RDiv(portions[Least(Tablespoons)].gramWeight, Num(3))>>,
                      <<"cup", RMul(portions[Least(Tablespoons)].gramWeight, Num(16))>>  >>
        /\ (Tablespoons = {} /\ Teaspoons # {}) =>
              UnitsAndWeights(Appended) =
                  <<  <<"tbsp", RMul(portions[Least(Teaspoons)].gramWeight, Num(3))>>  >>
        /\ (Tablespoons = {} /\ Teaspoons = {}) => derived = portions

\* C16, second part: deriving leaves the given table as it was.
C16_InputKept == [][DeriveCommonVolumes => portions' = portions]_vars

C16_Witness ==
    /\ pc = "derived"
    /\ portions = <<Entry("0", "1 tsp", "tsp", Num(4), <<>>), Entry("1", "", "tbsp", Num(15), <<>>)>>
    /\ Len(derived) = 4
    /\ derived[3].unit = "tsp" /\ derived[3].gramWeight = Num(5)
    /\ derived[4].unit = "cup" /\ derived[4].gramWeight = Num(240)

(***************************************************************************)
(* Building a table from a detail record: recipe_portions, then the        *)
(* derived volumes; and get_portions_for_fdc, the table /daily works with. *)
(***************************************************************************)
BuildPool ==
    <<  Raw(<<Num(240)>>, <<Num(1)>>, "cup", ""),
        Raw(<<Num(4)>>, <<Num(2)>>, "Cracker", ""),
        Raw(<<Zero>>, <<Num(1)>>, "Tablespoon", ""),
        Raw(<<Num(-5)>>, <<>>, "slice", "thin"),
        Raw(<<>>, <<Num(1)>>, "oz", ""),
        Raw(<<Num(4)>>, <<Num(1)>>, "tsp", ""),
        Raw(<<Num(50)>>, <<Num(1)>>, "", "large")  >>

\* sequences without repetition of at most MaxEntries records of the pool
BuildRaws ==
    {<<>>} \cup
    UNION { {[i \in 1..k |-> BuildPool[f[i]]] :
                f \in {g \in [1..k -> 1..Len(BuildPool)] :
                         \A a, b \in 1..k : a # b => g[a] # g[b]}} :
            k \in 1..MaxEntries }

DetailOf(raw) == [search |-> <<>>, detail |-> ("1" :> <<[foodPortions |-> raw]>>)]

InitBuild ==
    /\ NoStores
    /\ usda \in {DetailOf(raw) : raw \in BuildRaws}
    /\ portions = <<>> /\ derived = <<>>
    /\ text = "" /\ result = <<>>
    /\ pc = "detail"
    /\ name = "" /\ typed = NoText /\ UNIT_CONV = NoRegistry
    /\ calls = <<>> /\ bag = EmptyBag /\ amounts = <<>> /\ out = <<>>

\* recipe_portions(get_food_detail("1"))
RecipePortions ==
    /\ pc = "detail"
    /\ portions' = recipe_portions(get_food_detail(usda, "1")[1])
    /\ pc' = "given"
    /\ UNCHANGED <<name, text, typed, usda, UNIT_CONV, result, calls, derived,
                   bag, amounts, out,
                   storeVars>>

\* get_portions_for_fdc("1", ""): no description, so no alternate search
GetPortionsForFdc ==
    /\ pc = "detail"
    /\ portions' = normalize_portions(recipe_portions(get_food_detail(usda, "1")[1]))
    /\ pc' = "for_fdc"
    /\ UNCHANGED <<name, text, typed, usda, UNIT_CONV, result, calls, derived,
                   bag, amounts, out,
                   storeVars>>

NextBuild == RecipePortions \/ DeriveCommonVolumes \/ GetPortionsForFdc

SpecBuild == InitBuild /\ [][NextBuild]_vars

PositiveLowercase(table) ==
    \A i \in 1..Len(table) : table[i].gramWeight.n > 0 /\ table[i].unit = lower(table[i].unit)

\* the record the table was built from
RawGiven == get_food_detail(usda, "1")[1].foodPortions

\* C17: every entry of a table built by recipe_portions, and of the table
\* derive_common_volumes_simple makes of it, has a gram weight > 0 and a
\* lower-case unit; records without a numeric gram weight are discarded and
\* none with a zero or negative weight survives.
C17_PositiveWeights ==
    /\ pc \in {"given", "derived"} => PositiveLowercase(portions) /\ PositiveLowercase(derived)
    /\ pc = "given" => Len(portions) <= Len(RawGiven)

\* what holds of the built table: lower-case units, and one entry for each
\* record with a numeric weight, whatever its sign
BuiltKeepsNumeric ==
    pc \in {"given", "derived"} =>
        /\ \A i \in 1..Len(portions) : portions[i].unit = lower(portions[i].unit)
        /\ Len(portions) = Cardinality({i \in 1..Len(RawGiven) : RawGiven[i].gramWeight # <<>>})

\* the table of get_portions_for_fdc has positive weights and lower-case units
ForFdcPositive == pc = "for_fdc" => PositiveLowercase(portions)

\* a zero weight is built into the table and derived from
C17_ZeroWeightBuilt ==
    /\ pc = "derived"
    /\ RawGiven = <<BuildPool[3]>>
    /\ Len(derived) = 3
    /\ \A i \in 1..3 : derived[i].gramWeight = Zero

\* the keys of a raw record that normalize_per100 reads for the canonical key k
SourceKeys(k) ==
    {k}
    \cup UNION {{ALIASES[r][2][j] : j \in 1..Len(ALIASES[r][2])} :
                  r \in {q \in 1..Len(ALIASES) : ALIASES[q][1] = k}}
    \cup (IF k = "Calories"
          THEN {ENERGY_KEYS_KCAL[j] : j \in 1..Len(ENERGY_KEYS_KCAL)}
               \cup {ENERGY_KEYS_KJ[j] : j \in 1..Len(ENERGY_KEYS_KJ)}
          ELSE {})

AllNumbers(n, keys) == \A k \in keys : n[k].t = "num"

\* C18 as stated: for every input mapping normalize_per100 returns a bag whose
\* key set is exactly the canonical set (no synonym or other key of the input
\* survives) and whose every value is a number.
C18_ExactlyCanonical ==
    \A i \in 1..Len(out) : DOMAIN out[i] = wanted /\ AllNumbers(out[i], DOMAIN out[i])

\* C18: for every input mapping (empty, synonym keys only, unparseable
\* values) normalize_per100 returns a bag that holds every canonical key with
\* a number, 0.0 where the nutrient is missing or unparseable; the other keys
\* of the input, synonyms included, stay in the bag with the values given.
C18_CanonicalKeysNumbers ==
    \A i \in 1..Len(out) :
        /\ DOMAIN out[i] = wanted \cup DOMAIN bag
        /\ AllNumbers(out[i], wanted)
        /\ \A k \in wanted :
              /\ SourceKeys(k) \cap DOMAIN bag = {} => out[i][k] = PyNum(Zero)
              /\ (k \in DOMAIN bag /\ Truthy(bag[k]) /\ to_float(bag[k]) = <<>>)
                    => out[i][k] = PyNum(Zero)
        /\ \A k \in DOMAIN bag \ wanted : out[i][k] = bag[k]

C18_Witness ==
    /\ Len(out) = 1
    /\ bag = ("Energy (kJ)" :> PyStr("x") @@ "Sodium, Na" :> PyNum(Num(1)) @@ "Fiber" :> PyNum(Num(2)))
    /\ DOMAIN out[1] = wanted \cup {"Energy (kJ)", "Sodium, Na", "Fiber"}
    /\ out[1]["Energy (kJ)"] = PyStr("x")
    /\ out[1]["Calories"] = PyNum(Zero) /\ out[1]["Sodium"] = PyNum(Num(1))

\* the positions of keys at which the record has a value float() accepts
Parseable(keys) == {j \in 1..Len(keys) : to_float(Get(bag, keys[j])) # <<>>}

\* the Calories the priority order gives: the first kcal key with a parseable
\* value, else the first such kJ key over 4.184, else 0
CaloriesByPriority ==
    IF Parseable(ENERGY_KEYS_KCAL) # {}
    THEN to_float(Get(bag, ENERGY_KEYS_KCAL[Least(Parseable(ENERGY_KEYS_KCAL))]))[1]
    ELSE IF Parseable(ENERGY_KEYS_KJ) # {}
    THEN RDiv(to_float(Get(bag, ENERGY_KEYS_KJ[Least(Parseable(ENERGY_KEYS_KJ))]))[1], D(4184, 1000))
    ELSE Zero

\* C19: normalize_per100 takes Calories from the first key of Calories,
\* Energy (kcal), Energy, calories, Energy kcal that is present with a
\* parseable value; a kJ key (divided by 4.184) is used only when no kcal key
\* has one; an unparseable value under an earlier key (Calories = 'abc') does
\* not keep a later key from being used.
C19_CaloriesAliasPriority ==
    \A i \in 1..Len(out) : out[i]["Calories"] = PyNum(CaloriesByPriority)

\* Calories is given as a text float() rejects
CaloriesIsText == Truthy(Get(bag, "Calories")) /\ to_float(Get(bag, "Calories")) = <<>>

\* the priority order is followed whenever Calories is not such a text
PriorityUnlessText ==
    (Len(out) >= 1 /\ ~CaloriesIsText) => out[1]["Calories"] = PyNum(CaloriesByPriority)

\* Calories = 'abc' keeps Energy = 50 from being used
C19_TextHidesEnergy ==
    /\ Len(out) = 1
    /\ bag = ("Calories" :> PyStr("abc") @@ "Energy" :> PyNum(Num(50)))
    /\ out[1]["Calories"] = PyNum(Zero)

\* per100[k] * g / 100 for the normalised record and the i-th amount
ExactScaled(k, i) == RDiv(RMul(Get(normalize_per100(bag), k).v, amounts[i]), Num(100))

\* C20: the nutrients stored with a diary row of g grams hold, for every
\* canonical key (the 14 of the normaliser, Phosphorus among them), the value
\* per100[key] * g / 100; no canonical key is dropped or left at 0 when its
\* per-100 g value is not 0.
C20_EveryCanonicalKeyScaled ==
    pc = "daily" =>
        \A i \in 1..Len(out) : \A k \in wanted :
            /\ k \in DOMAIN out[i]
            /\ out[i][k] = PyNum(ExactScaled(k, i))

Within(a, b, eps) ==
    /\ RLeq(a, RAdd(b, eps))
    /\ RLeq(b, RAdd(a, eps))

\* what the stored nutrients are: the 13 names of TARGET_NUTRIENTS, each within
\* half a hundredth of the exact value
DailyStoresTargets ==
    pc = "daily" =>
        \A i \in 1..Len(out) :
            /\ DOMAIN out[i] = {TARGET_NAMES[j] : j \in 1..Len(TARGET_NAMES)}
            /\ \A k \in DOMAIN out[i] : Within(out[i][k].v, ExactScaled(k, i), D(5, 1000))

\* 115 mg of phosphorus per 100 g are not stored with a row of 50 g
C20_PhosphorusDropped ==
    /\ pc = "daily" /\ bag = DecimalBag
    /\ Len(out) >= 1 /\ amounts[1] = Num(50)
    /\ "Phosphorus" \notin DOMAIN out[1]
    /\ out[1]["Sodium"] \in {PyNum(D(61, 100)), PyNum(D(62, 100))}

(***************************************************************************)
(* lru_cache of get_food_detail (usda_client.py) and get_portions_for_fdc  *)
(* (portions.py).  lru = [detail, portions]: detail maps an fdcId to the   *)
(* answer kept (a failed lookup is kept as the empty answer), portions     *)
(* maps <<fdcId, description>> to the table kept.  Both caches hold        *)
(* thousands of entries; eviction is not modelled.                         *)
(***************************************************************************)
NoCache == [detail |-> <<>>, portions |-> <<>>]

\* the service as the program sees it: searches are live, a detail comes
\* from the cache when it is there
Through(svc, c) ==
    [search |-> svc.search,
     detail |-> [id \in DOMAIN c.detail \cup DOMAIN svc.detail |->
                    IF id \in DOMAIN c.detail THEN c.detail[id] ELSE svc.detail[id]]]

\* the fdcIds _search_and_take asks the detail of: the hits up to the first
\* one with portions
RECURSIVE AskedFrom(_, _, _)
AskedFrom(svc, hits, i) ==
    IF i > Len(hits) THEN {}
    ELSE {hits[i].fdcId}
         \cup (IF PartsOf(get_food_detail(svc, hits[i].fdcId)) # <<>> THEN {}
               ELSE AskedFrom(svc, hits, i + 1))

AskedBySearch(svc, query) == AskedFrom(svc, search_top_for_recipes(svc, query, 20), 1)

RECURSIVE AskedByVariants(_, _, _)
AskedByVariants(svc, vs, i) ==
    IF i > Len(vs) THEN {}
    ELSE AskedBySearch(svc, vs[i])
         \cup (IF SearchAndTake(svc, vs[i]) # <<>> THEN {} ELSE AskedByVariants(svc, vs, i + 1))

\* the fdcIds find_alt_portions_for_name asks the detail of
AskedByAlt(svc, nm) ==
    AskedBySearch(svc, nm)
    \cup (IF SearchAndTake(svc, nm) # <<>> THEN {}
          ELSE AskedByVariants(svc, Variants(lower(nm)), 1))

\* the cache after get_food_detail was called for ids
Remember(c, svc, ids) ==
    [detail   |-> [id \in DOMAIN c.detail \cup ids |->
                      IF id \in DOMAIN c.detail THEN c.detail[id] ELSE get_food_detail(svc, id)],
     portions |-> c.portions]

\* the body of get_portions_for_fdc on a cache miss; data/wiftee_portions.csv
\* is not in the repository, so find_wiftee_portions_for_name finds nothing
PortionsFor(svc, byId, byName, fid, desc) ==
    [parts |-> normalize_portions(IF byName THEN find_alt_portions_for_name(svc, desc)
                                  ELSE byId),
     asked |-> (IF fid # "" /\ AllDigits(fid) THEN {fid} ELSE {})
               \cup (IF byName THEN AskedByAlt(svc, desc) ELSE {})]

ByIdThenName(svc, byId, fid, desc) ==
    PortionsFor(svc, byId, byId = <<>> /\ desc # "", fid, desc)

ComputePortions(svc, fid, desc) ==
    ByIdThenName(svc,
                 IF fid # "" /\ AllDigits(fid) THEN PartsOf(get_food_detail(svc, fid)) ELSE <<>>,
                 fid, desc)

Kept(svc, c, fid, desc, r) ==
    [parts |-> r.parts,
     cache |-> [detail   |-> Remember(c, svc, r.asked).detail,
                portions |-> (<<fid, desc>> :> r.parts) @@ c.portions]]

\* get_portions_for_fdc(fid, desc): [parts, cache]
get_portions_for_fdc(svc, c, fid, desc) ==
    IF <<fid, desc>> \in DOMAIN c.portions
    THEN [parts |-> c.portions[<<fid, desc>>], cache |-> c]
    ELSE Kept(svc, c, fid, desc, ComputePortions(Through(svc, c), fid, desc))

(***************************************************************************)
(* app_blueprints/daily.py: POST /daily, action update_portions.           *)
(***************************************************************************)
SentinelWords == {"clear", "none", "x"}

Sentinels == {"0", "clear", "none", "x"}

QtyHint == "Please enter e.g. 100g · // (=1) · 2// · 1 cup · 2 tbsp · 1 cracker · or 0 to clear."

\* f"{x:.0f}" for x >= 0: the nearest integer, a half going to the even one
FormatF0(x) ==
    LET q == x.n \div x.d
        r == x.n % x.d
    IN  IntToStr(IF 2 * r > x.d \/ (2 * r = x.d /\ q % 2 = 1) THEN q + 1 ELSE q)

\* f"{x:g}" for a short positive decimal: "2", "1.5"
FormatG(x) == IF x.d = 1 THEN IntToStr(x.n) ELSE FloatToStr(x)

portion_human(r) ==
    IF r.unit \in {"g", "gram", "grams", ""} THEN FormatF0(r.grams) \o " g"
    ELSE FormatG(r.qty) \o " × " \o r.unit \o " (~" \o FormatF0(r.grams) \o " g)"

Without(d, k) == [j \in DOMAIN d \ {k} |-> d[j]]

\* the loop's state: the day's map, the hints, the caches, the triples the
\* parser returned (by fdcId), what daymap.pop returned (by fdcId: None or
\* the row removed), had_errors
LoopState(daymap, errors, cache, parsed, popped, had) ==
    [daymap |-> daymap, errors |-> errors, cache |-> cache, parsed |-> parsed,
     popped |-> popped, had |-> had]

\* a loop that drops the row of a food whose text did not resolve
LoggedDropping(svc, f, st, r, after) ==
    IF r.grams.n <= 0
    THEN {LoopState(Without(st.daymap, f.fdcId), Put(st.errors, f.fdcId, QtyHint), after,
                    Put(st.parsed, f.fdcId, r), st.popped, TRUE)}
    ELSE {LoopState(Put(st.daymap, f.fdcId,
                        [fdcId |-> f.fdcId, name |-> f.description, grams |-> r.grams,
                         portion_human |-> portion_human(r), nutrients |-> sc]),
                    st.errors, after, Put(st.parsed, f.fdcId, r), st.popped, st.had) :
            sc \in daily_scaled(f.nutrients, r.grams)}

\* lines 338-362: after the parser returned r for food f
Logged(svc, f, st, r, after) ==
    IF r.grams.n <= 0
    THEN {LoopState(st.daymap, Put(st.errors, f.fdcId, QtyHint), after,
                    Put(st.parsed, f.fdcId, r), st.popped, TRUE)}
    ELSE {LoopState(Put(st.daymap, f.fdcId,
                        [fdcId |-> f.fdcId, name |-> f.description, grams |-> r.grams,
                         portion_human |-> portion_human(r), nutrients |-> sc]),
                    st.errors, after, Put(st.parsed, f.fdcId, r), st.popped, st.had) :
            sc \in daily_scaled(f.nutrients, r.grams)}

\* the detail answers find_alt_portions_for_name cached while the parser ran
AfterParse(svc, f, c, r) ==
    IF \E i \in 1..Len(r.calls) : r.calls[i] = "alternate"
    THEN Remember(c, svc, AskedByAlt(Through(svc, c), f.description))
    ELSE c

ParserReturned(svc, f, st, p, r) == Logged(svc, f, st, r, AfterParse(svc, f, p.cache, r))

\* lines 326-336: the table, then the parser
Resolve(svc, conv, f, raw, st, p) ==
    ParserReturned(svc, f, st, p,
           grams_from_qty_text(Through(svc, p.cache), conv, f.description, raw, p.parts))

\* one turn of the loop, for food f and its stripped form field raw
UpdateOne(svc, conv, f, raw, st) ==
    IF raw = "" THEN {st}
    ELSE IF lower(raw) \in Sentinels
    THEN {LoopState(Without(st.daymap, f.fdcId), st.errors, st.cache, st.parsed,
                    Put(st.popped, f.fdcId,
                        IF f.fdcId \in DOMAIN st.daymap THEN <<st.daymap[f.fdcId]>> ELSE <<>>),
                    st.had)}
    ELSE Resolve(svc, conv, f, raw, st, get_portions_for_fdc(svc, st.cache, f.fdcId, f.description))

FormField(fm, fid) == IF fid \in DOMAIN fm THEN strip(fm[fid]) ELSE ""

\* the loop over my_food_list from food i on, from each state of S
RECURSIVE UpdateAll(_, _, _, _, _, _)
UpdateAll(svc, conv, foods, fm, i, S) ==
    IF i > Len(foods) THEN S
    ELSE UpdateAll(svc, conv, foods, fm, i + 1,
                   UNION {UpdateOne(svc, conv, foods[i], FormField(fm, foods[i].fdcId), st) :
                            st \in S})

\* lines 372-379: with errors every food's table is fetched for the page
RECURSIVE FillAll(_, _, _, _)
FillAll(svc, foods, i, c) ==
    IF i > Len(foods) THEN c
    ELSE FillAll(svc, foods, i + 1,
                 get_portions_for_fdc(svc, c, foods[i].fdcId, foods[i].description).cache)

\* the foods of session["my_food_list"]
Food(fid, desc, per100) == [fdcId |-> fid, description |-> desc, nutrients |-> per100]

DailyFoods == <<Food("31", "Cooked Rice", RiceBag), Food("7", "Saltine Crackers", CrackerBag)>>

\* the service after the record of food 31 was revised
RiceRevised ==
    [search |-> RiceService.search,
     detail |-> [id \in DOMAIN RiceService.detail |->
                    IF id = "31"
                    THEN <<[foodPortions |-> <<Raw(<<Num(150)>>, <<Num(1)>>, "cup", "")>>]>>
                    ELSE RiceService.detail[id]]]

\* the external service: unreachable, answering, answering the revised record
DailyServices == {NoService, RiceService, RiceRevised}

\* what the user may submit: the fields qty_<fdcId>
RiceTexts == {"", "0", "Clear", "banana boat", "2 cup"}

CrackerTexts == {"", " none ", "X", "150g"}

Forms == {("31" :> a) @@ ("7" :> b) : a \in RiceTexts, b \in CrackerTexts}

InitDaily ==
    /\ my_food_list = DailyFoods
    /\ diary_by_food = <<>>
    /\ form = <<>>
    /\ qty_errors = <<>>
    /\ lru = NoCache
    /\ usda \in DailyServices
    /\ UNIT_CONV = NoRegistry
    /\ result = <<>>
    /\ pc = "daily"
    /\ diary_entries = <<>> /\ _entry_seq = 0
    /\ history_days = <<>> /\ history_file = <<>> /\ workers = <<>>
    /\ name = "" /\ text = "" /\ typed = NoText /\ portions = <<>> /\ calls = <<>>
    /\ derived = <<>> /\ bag = <<>> /\ amounts = <<>> /\ out = <<>>

\* POST /daily, action=update_portions, with the form fm; result is the
\* triple the parser returned for each food it was called for, calls what
\* daymap.pop returned for each food it was called for
UpdatePortions ==
    /\ pc = "daily"
    /\ \E fm \in Forms :
         \E st \in UpdateAll(usda, UNIT_CONV, my_food_list, fm, 1,
                             {LoopState(diary_by_food, <<>>, lru, <<>>, <<>>, FALSE)}) :
            /\ form' = fm
            /\ diary_by_food' = st.daymap
            /\ qty_errors' = st.errors
            /\ result' = st.parsed
            /\ calls' = st.popped
            /\ lru' = IF st.had THEN FillAll(usda, my_food_list, 1, st.cache) ELSE st.cache
    /\ UNCHANGED <<name, text, typed, portions, usda, UNIT_CONV, derived, bag, amounts,
                   out, pc, my_food_list, diary_entries, _entry_seq, history_days,
                   history_file, workers>>

\* the external service goes down, comes back, or revises a record
ServiceChanges ==
    /\ pc = "daily"
    /\ usda' \in DailyServices \ {usda}
    /\ UNCHANGED <<name, text, typed, portions, UNIT_CONV, result, calls, derived, bag, amounts,
                   out, pc, storeVars>>

NextDaily == UpdatePortions \/ ServiceChanges

SpecDaily == InitDaily /\ [][NextDaily]_vars

(***************************************************************************)
(* The diary update and the texts it does not parse.                       *)
(***************************************************************************)
Submitted(fid) == IF fid \in DOMAIN form THEN strip(form[fid]) ELSE ""

FoodIds == {my_food_list[i].fdcId : i \in 1..Len(my_food_list)}

\* C21: in the diary update, a quantity that is, trimmed and whatever its
\* letter case, one of 0, clear, none, x removes the entry: the parser is
\* not called for that food, the day's map has no entry for it afterwards,
\* and no hint is recorded for it.
C21_SentinelRemoves ==
    \A fid \in FoodIds :
        lower(Submitted(fid)) \in {"0", "clear", "none", "x"}
        => /\ fid \notin DOMAIN result
           /\ fid \in DOMAIN calls
           /\ fid \notin DOMAIN diary_by_food
           /\ fid \notin DOMAIN qty_errors

\* the rice row was in the diary and "Clear" removed it, the cracker row
\* went with " none " in the same request
C21_Witness ==
    /\ form = ("31" :> "Clear") @@ ("7" :> " none ")
    /\ calls["31"] # <<>> /\ calls["7"] # <<>>
    /\ DOMAIN diary_by_food = {}

\* the form's text for fid after the request
SubmittedNext(fid) == IF fid \in DOMAIN form' THEN strip(form'[fid]) ELSE ""

SameRow(fid) ==
    /\ (fid \in DOMAIN diary_by_food') = (fid \in DOMAIN diary_by_food)
    /\ fid \in DOMAIN diary_by_food => diary_by_food'[fid] = diary_by_food[fid]

\* C22: in the diary update, a food whose text is empty, or does not resolve
\* (the parser yields grams <= 0), keeps its diary row, present or absent,
\* exactly as it was before the request; when the text did not resolve, the
\* fixed hint is recorded for the food.  (The steps that leave usda alone are
\* the requests.)
C22_NoChangeWithoutGrams ==
    [][usda' = usda =>
         \A fid \in FoodIds :
            /\ SubmittedNext(fid) = "" => SameRow(fid) /\ fid \notin DOMAIN qty_errors'
            /\ (fid \in DOMAIN result' /\ result'[fid].grams.n <= 0)
               => SameRow(fid) /\ fid \in DOMAIN qty_errors' /\ qty_errors'[fid] = QtyHint]_vars

\* "banana boat" was submitted for the rice while its row was in the diary:
\* the row is still there, with the hint
C22_Witness ==
    /\ "31" \in DOMAIN form /\ form["31"] = "banana boat"
    /\ "31" \in DOMAIN result /\ result["31"].grams.n <= 0
    /\ "31" \in DOMAIN diary_by_food
    /\ "31" \in DOMAIN qty_errors

(***************************************************************************)
(* The alternate-food search: usda_client.search_top_for_recipes and       *)
(* portions.find_alt_portions_for_name over the answers of the service.    *)
(***************************************************************************)
MaxHits == 3

DataTypes == {"Foundation", "SR Legacy", "Survey (FNDDS)", "Branded", "Experimental"}

HitIds == [i \in 1..MaxHits |-> IntToStr(i)]

\* what the service may hold for a hit: nothing (the lookup fails), a record
\* without portions, a record with one portion (its weight tells the hit)
DetailKinds == {"none", "empty", "cup"}

DetailFor(i, kind) ==
    IF kind = "none" THEN <<>>
    ELSE IF kind = "empty" THEN <<[foodPortions |-> <<>>]>>
    ELSE <<[foodPortions |-> <<Raw(<<Num(100 + i)>>, <<Num(1)>>, "cup", "")>>]>>

\* the service answering the query with the hits of types ts, holding for
\* them the details of kinds ks
SearchService(ts, ks) ==
    [search |-> ("Cooked Rice" :> [i \in DOMAIN ts |-> Hit(HitIds[i], ts[i])]),
     detail |-> [id \in {HitIds[i] : i \in DOMAIN ts} |->
                    DetailFor(CHOOSE i \in DOMAIN ts : HitIds[i] = id,
                              ks[CHOOSE i \in DOMAIN ts : HitIds[i] = id])]]

SearchLimits == {1, 2, 20}

InitSearch ==
    /\ NoStores
    /\ \E n \in 0..MaxHits :
          \E ts \in [1..n -> DataTypes], ks \in [1..n -> DetailKinds] :
             usda = SearchService(ts, ks)
    /\ name = "Cooked Rice"
    /\ out = <<>> /\ derived = <<>>
    /\ pc = "search"
    /\ text = "" /\ typed = NoText /\ portions = <<>> /\ UNIT_CONV = NoRegistry
    /\ result = <<>> /\ calls = <<>> /\ bag = <<>> /\ amounts = <<>>

\* search_top_for_recipes(name, limit)
SearchTopForRecipes ==
    /\ pc = "search"
    /\ \E limit \in SearchLimits :
          out' = [limit |-> limit, hits |-> search_top_for_recipes(usda, name, limit)]
    /\ pc' = "ranked"
    /\ UNCHANGED <<name, text, typed, portions, usda, UNIT_CONV, result, calls, derived,
                   bag, amounts, storeVars>>

\* find_alt_portions_for_name(name)
FindAltPortions ==
    /\ pc = "search"
    /\ derived' = find_alt_portions_for_name(usda, name)
    /\ pc' = "alt"
    /\ UNCHANGED <<name, text, typed, portions, usda, UNIT_CONV, result, calls, out,
                   bag, amounts, storeVars>>

NextSearch == SearchTopForRecipes \/ FindAltPortions

SpecSearch == InitSearch /\ [][NextSearch]_vars

\* the rank of a data type: 1..4 for the preferred ones, 5 for any other
TypeRank(dt) ==
    IF dt = "Foundation" THEN 1 ELSE IF dt = "SR Legacy" THEN 2
    ELSE IF dt = "Survey (FNDDS)" THEN 3 ELSE IF dt = "Branded" THEN 4 ELSE 5

OfRank(hits, r) == SelectSeq(hits, LAMBDA h : TypeRank(h.dataType) = r)

\* ranked is given reordered by type rank, given order kept within a rank:
\* the ranks never decrease along ranked, and the hits of each rank are those
\* of given in given's order
RankedFrom(ranked, given) ==
    /\ \A i \in 1..(Len(ranked) - 1) :
          TypeRank(ranked[i].dataType) <= TypeRank(ranked[i + 1].dataType)
    /\ \A r \in 1..5 : OfRank(ranked, r) = OfRank(given, r)

\* the hits the service answers the query with, at most limit of them
Answered(limit) ==
    IF name \in DOMAIN usda.search
    THEN SubSeq(usda.search[name], 1, IF Len(usda.search[name]) < limit
                                      THEN Len(usda.search[name]) ELSE limit)
    ELSE <<>>

\* the hits of rs, in order, whose record has a portion with a numeric weight
WithTable(rs) ==
    SelectSeq(rs, LAMBDA h : /\ h.fdcId \in DOMAIN usda.detail
                             /\ usda.detail[h.fdcId] # <<>>
                             /\ usda.detail[h.fdcId][1].foodPortions # <<>>)

\* C23: the alternate-food search returns its candidates ranked by data type,
\* Foundation before SR Legacy before Survey (FNDDS) before Branded, other
\* types last, the service's order kept within a type, at most limit of
\* them; the fallback takes the portions (with the volumes derived from
\* them) of the first candidate in that order that has a portion table, and
\* nothing when no candidate has one.
C23_RankedByDataType ==
    /\ pc = "ranked" => /\ RankedFrom(out.hits, Answered(out.limit))
                        /\ Len(out.hits) <= out.limit
    /\ pc = "alt" =>
          \E rs \in {search_top_for_recipes(usda, name, 20)} :
             /\ RankedFrom(rs, Answered(20))
             /\ derived = IF WithTable(rs) = <<>> THEN <<>>
                          ELSE derive_common_volumes_simple(
                                   recipe_portions(usda.detail[WithTable(rs)[1].fdcId][1]))

\* the service lists a Branded food with portions first, then a food of
\* another type with portions, then a Foundation food with portions: the
\* fallback took the Foundation food's
C23_Witness ==
    /\ pc = "alt"
    /\ Len(usda.search[name]) = 3
    /\ usda.search[name][1].dataType = "Branded" /\ usda.detail["1"] # <<>>
    /\ usda.detail["1"][1].foodPortions # <<>>
    /\ usda.search[name][2].dataType = "Experimental"
    /\ usda.search[name][3].dataType = "Foundation"
    /\ derived # <<>> /\ derived[1].gramWeight = Num(103)

(***************************************************************************)
(* Portion tables across requests.                                         *)
(***************************************************************************)
\* the table the next request gets for food f
NextTable(f) == get_portions_for_fdc(usda, lru, f.fdcId, f.description).parts

\* the table the source data gives for food f now
SourceTable(f) == ComputePortions(usda, f.fdcId, f.description).parts

\* C24: a food's portion table is never kept between requests: whatever the
\* requests and the changes of the external records before, the next request
\* for a food's portions gets the table the source data gives now.
C24_RecomputedEachRequest ==
    \A i \in 1..Len(my_food_list) : NextTable(my_food_list[i]) = SourceTable(my_food_list[i])

\* the table of the rice was asked for while the service was down and is
\* kept empty although the service now answers with a cup of 140 g
C24_StaleTable ==
    /\ <<"31", "Cooked Rice">> \in DOMAIN lru.portions
    /\ lru.portions[<<"31", "Cooked Rice">>] = <<>>
    /\ usda = RiceService
    /\ SourceTable(my_food_list[1]) # <<>>

\* a table that was never asked for is computed from the source data
FreshWhenNotKept ==
    \A i \in 1..Len(my_food_list) :
        (/\ <<my_food_list[i].fdcId, my_food_list[i].description>> \notin DOMAIN lru.portions
         /\ lru.detail = <<>>)
        => NextTable(my_food_list[i]) = SourceTable(my_food_list[i])

(***************************************************************************)
(* The parser and the external service.                                    *)
(***************************************************************************)
\* what the external service may answer at the time of a call
AnyService == {NoService, RiceService, RomaService, GarlicService}

TripleOf(r) == <<[grams |-> r.grams, unit |-> r.unit, qty |-> r.qty]>>

\* the alternate-food search, which asks the external service, was made
AskedService == \E i \in 1..Len(calls) : calls[i] = "alternate"

\* C25: resolveGrams performs no I/O and is a function of (foodName, text,
\* portions) and the static tables alone: the call asks the external service
\* nothing, and the triple it returned is the triple it returns whatever the
\* service would answer.
C25_NoServiceInfluence ==
    pc = "quantity_parser" =>
        /\ ~AskedService
        /\ \A svc \in AnyService :
              result = TripleOf(grams_from_qty_text(svc, UNIT_CONV, name, text, portions))

\* "2 cup" of Cooked Rice with no table of its own: 316 g from the alternate
\* food the service offers, 480 g were the service down
C25_ServiceDecides ==
    /\ pc = "quantity_parser"
    /\ name = "Cooked Rice" /\ portions = <<>> /\ usda = RiceService
    /\ AskedService
    /\ result[1].unit = "cup" /\ result[1].qty = Num(2) /\ result[1].grams = Num(316)
    /\ grams_from_qty_text(NoService, UNIT_CONV, name, text, portions).grams = Num(480)

\* a call that did not reach the alternate-food search returns the same
\* triple whatever the service
SameUnlessAsked ==
    (pc = "quantity_parser" /\ ~AskedService) =>
        \A svc \in AnyService :
           result = TripleOf(grams_from_qty_text(svc, UNIT_CONV, name, text, portions))

(***************************************************************************)
(* nutrition/services/units.py: parse_line_to_qty_unit_name, the parser of *)
(* recipe lines, and the exceptions of the quantity parsers.  An outcome   *)
(* is [raised, value]: raised names the exception that leaves the          *)
(* function ("" when it returns), value is what it returns.                *)
(***************************************************************************)
\* re.sub(r"\s*,\s*", " ", s)
RECURSIVE CommasToSpaces(_)
CommasToSpaces(s) ==
    IF ~Contains(s, ",") THEN s
    ELSE LET k == CHOOSE j \in 1..Len(s) : Ch(s, j) = "," /\ \A i \in 1..(j - 1) : Ch(s, i) # ","
         IN  rstrip(SubSeq(s, 1, k - 1)) \o " " \o CommasToSpaces(lstrip(SubSeq(s, k + 1, Len(s))))

\* ^(\d+(?:\.\d+)?|\d+\s*/\s*\d+)\s+(.*)$ : <<q_raw, rest>> or no match; the
\* decimal alternative is tried first
ReQtyRest(s) ==
    LET k    == FirstSpace(s)
        head == SubSeq(s, 1, k - 1)
    IN  IF k > 1 /\ IsDecimal(head)
        THEN <<head, lstrip(SubSeq(s, k, Len(s)))>>
        ELSE LET cuts == {j \in 2..(Len(s) - 1) :
                             /\ IsSpace(Ch(s, j + 1))
                             /\ IsFraction(SubSeq(s, 1, j))}
             IN  IF cuts = {} THEN <<>>
                 ELSE LET j == CHOOSE c \in cuts : TRUE
                      IN  <<SubSeq(s, 1, j), lstrip(SubSeq(s, j + 1, Len(s)))>>

\* {syn: canon for canon, syns in UNIT_SYNONYMS.items() for syn in syns}.get(w)
syn2canon(w) ==
    IF w \in {"clove", "cloves"} THEN <<"clove">>
    ELSE IF w \in {"cup", "cups"} THEN <<"cup">>
    ELSE IF w \in {"tbsp", "tablespoon", "tablespoons"} THEN <<"tbsp">>
    ELSE IF w \in {"tsp", "teaspoon", "teaspoons"} THEN <<"tsp">>
    ELSE IF w \in {"lb", "lbs", "pound", "pounds"} THEN <<"pound">>
    ELSE IF w \in {"oz", "ounce", "ounces"} THEN <<"ounce">>
    ELSE IF w \in {"whole", "each", "piece"} THEN <<"whole">>
    ELSE <<>>

Outcome(raised, value) == [raised |-> raised, value |-> value]

LineTuple(qty, unit, nm) == [qty |-> qty, unit |-> unit, name |-> nm]

\* lines 92-101: tokens = rest.split() and the unit among them
UnitAndName(qty, rest) ==
    LET k     == FirstSpace(rest)
        first == IF k = 0 THEN rest ELSE SubSeq(rest, 1, k - 1)
        after == IF k = 0 THEN "" ELSE SubSeq(rest, k, Len(rest))
    IN  IF rest = "" THEN Outcome("", LineTuple(<<qty>>, <<>>, <<>>))
        ELSE IF syn2canon(first) # <<>>
        THEN Outcome("", LineTuple(<<qty>>, syn2canon(first), <<CollapseSpaces(strip(after))>>))
        ELSE Outcome("", LineTuple(<<qty>>, <<"whole">>, <<CollapseSpaces(rest)>>))

\* lines 84-89: qty = float(a) / float(b), outside any try
LineQuantity(q_raw, rest) ==
    IF Contains(q_raw, "/")
    THEN LET k == CHOOSE j \in 1..Len(q_raw) : Ch(q_raw, j) = "/"
             a == strip(SubSeq(q_raw, 1, k - 1))
             b == strip(SubSeq(q_raw, k + 1, Len(q_raw)))
         IN  IF float(b).n = 0 THEN Outcome("ZeroDivisionError", <<>>)
             ELSE UnitAndName(RDiv(float(a), float(b)), rest)
    ELSE UnitAndName(float(q_raw), rest)

LineMatched(s, m) ==
    IF m = <<>> THEN Outcome("", LineTuple(<<>>, <<>>, <<s>>))
    ELSE LineQuantity(m[1], strip(m[2]))

LineFrom(s) == LineMatched(s, ReQtyRest(s))

parse_line_to_qty_unit_name(line) ==
    IF strip(lower(line)) = "" THEN Outcome("", LineTuple(<<>>, <<>>, <<>>))
    ELSE LineFrom(CommasToSpaces(strip(lower(line))))

\* the lines and quantity texts tried: a quantity, a gap, the rest
LineNums == {"", "1", "1.5", "1/2", "1/0", "0/0", "2/00", "1 / 0", "x"}

LineRests == {"", "cup", "Cups onion", "onion", "garlic cloves", "onion , diced", "g",
              "banana boat"}

\* a table as get_portions_for_fdc hands it over
CupTable ==
    normalize_portions(recipe_portions(
        [foodPortions |-> <<Raw(<<Num(240)>>, <<Num(1)>>, "cup", "")>>]))

InitLine ==
    /\ NoStores
    /\ typed \in [lead : {""}, num : LineNums, gap : Pads, suf : LineRests, trail : Pads]
    /\ text = TextOf(typed)
    /\ name = "Onion"
    /\ portions \in {<<>>, CupTable}
    /\ usda = NoService /\ UNIT_CONV = NoRegistry
    /\ result = <<>>
    /\ pc = "start"
    /\ calls = <<>> /\ derived = <<>> /\ bag = <<>> /\ amounts = <<>> /\ out = <<>>

\* the entry point fn was called on the text and ended as o
Ended(fn, o) ==
    /\ pc = "start"
    /\ result' = o
    /\ pc' = fn
    /\ UNCHANGED <<name, text, typed, portions, usda, UNIT_CONV, calls, derived, bag, amounts,
                   out, storeVars>>

ParseLine == Ended("parse_line_to_qty_unit_name", parse_line_to_qty_unit_name(text))

\* the division of _parse_fraction_or_float is inside a try; the float() calls
\* of the three functions below take the digits a pattern has matched
ParseQtyText == Ended("parse_qty_text", Outcome("", parse_qty_text(text)))

GramsUnits ==
    Ended("units", Outcome("", units_grams_from_qty_text(name, text, portions)))

GramsQuantityParser ==
    Ended("quantity_parser",
          Outcome("", grams_from_qty_text(usda, UNIT_CONV, name, text, portions)))

NextLine == ParseLine \/ ParseQtyText \/ GramsUnits \/ GramsQuantityParser

SpecLine == InitLine /\ [][NextLine]_vars

\* the text is a fraction with a zero denominator, white space, a unit or name
ZeroDenominator == typed.num \in {"1/0", "0/0", "2/00"} /\ typed.gap = " " /\ typed.suf # ""

\* the value an entry point returned is zero or empty
ZeroOrEmpty ==
    IF pc = "parse_line_to_qty_unit_name"
    THEN result.value.qty = <<>> \/ result.value.qty[1].n = 0
    ELSE IF pc = "parse_qty_text"
    THEN result.value = <<>> \/ result.value[1].qty = <<>> \/ result.value[1].qty[1].n = 0
    ELSE result.value.grams.n = 0

\* C26: no quantity-parsing entry point raises, whatever the text:
\* parse_qty_text, the two grams_from_qty_text and
\* parse_line_to_qty_unit_name return, and what they return for a fraction
\* with a zero denominator ('1/0 cup', '1/0 onion') is zero or empty.
C26_NoEntryPointRaises ==
    pc # "start" => /\ result.raised = ""
                    /\ ZeroDenominator => ZeroOrEmpty

\* '1/0 onion' given to parse_line_to_qty_unit_name
C26_LineRaises ==
    /\ pc = "parse_line_to_qty_unit_name"
    /\ text = "1/0 onion"
    /\ result.raised = "ZeroDivisionError"

\* the three parsers of quantity texts return, zero or empty for a zero
\* denominator; the parser of recipe lines raises only for one
RaisesOnlyOnLineZeroDenominator ==
    pc # "start" =>
        /\ pc # "parse_line_to_qty_unit_name" =>
              result.raised = "" /\ (ZeroDenominator => ZeroOrEmpty)
        /\ result.raised # "" => ZeroDenominator

(***************************************************************************)
(* The count typed and the grams resolved.                                 *)
(***************************************************************************)
\* a bare count: a positive decimal number and nothing else
TypedBareCount ==
    typed.num \in PlainNumbers /\ float(typed.num).n > 0 /\ typed.suf = ""

\* the text with the count replaced by 1
TextOfOne == TextOf([typed EXCEPT !.num = "1"])

PositiveTable == \A i \in 1..Len(portions) : portions[i].gramWeight.n > 0

LinearIn(k, one) ==
    /\ result[1].grams = RMul(k, one.grams)
    /\ result[1].unit = one.unit
    /\ calls = one.calls

\* C27: the grams resolved are linear in the count typed: with the food
\* name, the unit word, the table (weights > 0), the service and the registry
\* fixed, '<k> <unit>' for k > 0 is answered by the tier that answers
\* '1 <unit>' and resolves k times its grams; a bare number '<k>' resolves k
\* times the grams of '1'.
C27_LinearInCount ==
    (pc = "quantity_parser" /\ (TypedNumberUnit \/ TypedBareCount) /\ PositiveTable) =>
        LinearIn(float(typed.num),
                 grams_from_qty_text(usda, UNIT_CONV, name, TextOfOne, portions))

\* '2 cup' of the rice without a table of its own: twice the 158 g of the
\* alternate food's cup
C27_Witness ==
    /\ pc = "quantity_parser"
    /\ name = "Cooked Rice" /\ portions = <<>> /\ typed.num = "2" /\ typed.suf = "cup"
    /\ typed.gap = " "
    /\ result[1].grams = Num(316)
    /\ calls[Len(calls)] = "alternate"

(***************************************************************************)
(* nutrition/services/history_store.py and full_day_store.py: the saved    *)
(* days of one user.  history_file is the list in                          *)
(* instance/history/<user>.json, out the list in                           *)
(* instance/full_days/<user>.json; a missing file reads as the empty list. *)
(* A day is a dict, here a function from its keys.                         *)
(***************************************************************************)
DateList == <<"2024-05-01", "2024-05-02", "2024-05-03">>

Dates == {DateList[i] : i \in 1..Len(DateList)}

\* a < b for the date strings enumerated
LessStr(a, b) == \E i, j \in 1..Len(DateList) : DateList[i] = a /\ DateList[j] = b /\ i < j

DayTotals == {"Calories" :> PyNum(Num(k * 100)) : k \in 1..3}

Day(date, totals) == [date |-> date, totals |-> totals]

\* the days a caller may pass: complete, or lacking a key
Days ==
    {Day(d, t) : d \in Dates, t \in DayTotals}
    \cup {[date |-> d] : d \in Dates} \cup {[totals |-> t] : t \in DayTotals}

\* history_store.get_day: None, or the first day of the list with the date
get_day(days, date_str) ==
    IF \E i \in 1..Len(days) : days[i].date = date_str
    THEN <<days[CHOOSE i \in 1..Len(days) :
                   /\ days[i].date = date_str
                   /\ \A j \in 1..(i - 1) : days[j].date # date_str]>>
    ELSE <<>>

\* an upsert that always appends
upsert_appending(days, day) == Append(days, day)

\* lines 56-60 of history_store.upsert_day: by_date keeps the last index of
\* each date
upsert_into(days, day) ==
    IF \E i \in 1..Len(days) : days[i].date = day.date
    THEN [days EXCEPT ![CHOOSE i \in 1..Len(days) :
                           /\ days[i].date = day.date
                           /\ \A j \in (i + 1)..Len(days) : days[j].date # day.date] = day]
    ELSE Append(days, day)

\* the position at which day goes into the list sorted by date
RECURSIVE SortedInsert(_, _)
SortedInsert(days, day) ==
    IF days = <<>> THEN <<day>>
    ELSE IF LessStr(day.date, days[Len(days)].date)
    THEN Append(SortedInsert(SubSeq(days, 1, Len(days) - 1), day), days[Len(days)])
    ELSE Append(days, day)

\* lines 23-25 of full_day_store.upsert_day: drop the date, append, sort
full_upsert_into(days, day) ==
    SortedInsert(SelectSeq(days, LAMBDA d : d.date # day.date), day)

\* the days given to full_day_store: a date and the entries of the day
FullDays == {[date |-> d, entries |-> e] : d \in Dates, e \in {<<>>, <<"rice">>}}

InitHistory ==
    /\ history_file = <<>>
    /\ out = <<>>
    /\ calls = <<>>
    /\ result = <<>>
    /\ pc = "history"
    /\ my_food_list = <<>> /\ diary_by_food = <<>> /\ diary_entries = <<>> /\ _entry_seq = 0
    /\ history_days = <<>> /\ form = <<>> /\ qty_errors = <<>> /\ lru = <<>> /\ workers = <<>>
    /\ name = "" /\ text = "" /\ typed = NoText /\ portions = <<>> /\ usda = NoService
    /\ UNIT_CONV = NoRegistry /\ derived = <<>> /\ bag = <<>> /\ amounts = <<>>

\* history_store.upsert_day(instance_path, user_id, day); calls keeps, per
\* date, the day most recently upserted
UpsertDay ==
    /\ pc = "history"
    /\ \E day \in Days :
          IF "date" \notin DOMAIN day \/ "totals" \notin DOMAIN day
          THEN /\ result' = Outcome("ValueError", <<>>)
               /\ UNCHANGED <<history_file, calls>>
          ELSE /\ history_file' = upsert_into(history_file, day)
               /\ calls' = Put(calls, day.date, day)
               /\ result' = Outcome("", <<>>)
    /\ UNCHANGED <<name, text, typed, portions, usda, UNIT_CONV, derived, bag, amounts, out, pc,
                   my_food_list, diary_by_food, diary_entries, _entry_seq, history_days, form,
                   qty_errors, lru, workers>>

\* full_day_store.upsert_day(instance_path, user_id, day)
FullUpsertDay ==
    /\ pc = "history"
    /\ \E day \in FullDays : out' = full_upsert_into(out, day)
    /\ result' = Outcome("", <<>>)
    /\ UNCHANGED <<name, text, typed, portions, usda, UNIT_CONV, calls, derived, bag, amounts,
                   pc, storeVars>>

NextHistory == UpsertDay \/ FullUpsertDay

SpecHistory == InitHistory /\ [][NextHistory]_vars

OnePerDate(days) == \A i, j \in 1..Len(days) : days[i].date = days[j].date => i = j

\* C28: history_store.upsert_day inserts or replaces a day by its date:
\* after any sequence of calls from an empty history the list holds at most
\* one record per date and get_day(date) returns the day most recently
\* upserted for the date (nothing for a date never upserted); a call for one
\* date leaves what get_day returns for every other date, and the other
\* records of the list, as they were.
C28_UpsertByDate ==
    /\ [](/\ OnePerDate(history_file)
          /\ \A d \in Dates :
                get_day(history_file, d) = IF d \in DOMAIN calls THEN <<calls[d]>> ELSE <<>>)
    /\ [][\A d \in Dates :
            get_day(history_file', d) # get_day(history_file, d)
            => /\ get_day(history_file', d) # <<>>
               /\ \A e \in Dates \ {d} : get_day(history_file', e) = get_day(history_file, e)
               /\ \A i \in 1..Len(history_file) :
                     history_file[i].date # d => history_file'[i] = history_file[i]]_vars

\* the first of three days saved was saved again with other totals
C28_Witness ==
    /\ Len(history_file) = 3
    /\ history_file[1] = Day("2024-05-02", "Calories" :> PyNum(Num(300)))
    /\ history_file[2].date = "2024-05-03"
    /\ history_file[3].date = "2024-05-01"
    /\ result = Outcome("", <<>>)

\* the list of full_day_store holds one record per date, in date order
FullDaysSorted ==
    /\ OnePerDate(out)
    /\ \A i \in 1..(Len(out) - 1) : LessStr(out[i].date, out[i + 1].date)

(***************************************************************************)
(* Two requests saving a day for the same user at the same time.  The      *)
(* server handles requests in threads (or processes); neither store takes  *)
(* a lock, so the steps of two upsert_day calls interleave: _load_all      *)
(* reads the file, _save_all (Path.write_text) opens it, which empties it, *)
(* and then writes the list.  A worker is [pc, day, days]: where its call  *)
(* is, the day it saves, the list it holds.                                *)
(***************************************************************************)
Workers == {1, 2}

Worker(at, day, days) == [pc |-> at, day |-> day, days |-> days]

InitConcurrent ==
    /\ history_file \in {<<>>, <<Day(DateList[3], "Calories" :> PyNum(Num(100)))>>}
    /\ \E d1, d2 \in Days :
          /\ DOMAIN d1 = {"date", "totals"} /\ DOMAIN d2 = {"date", "totals"}
          /\ d1.date # d2.date
          /\ workers = (1 :> Worker("called", d1, <<>>)) @@ (2 :> Worker("called", d2, <<>>))
    /\ pc = "concurrent"
    /\ my_food_list = <<>> /\ diary_by_food = <<>> /\ diary_entries = <<>> /\ _entry_seq = 0
    /\ history_days = <<>> /\ form = <<>> /\ qty_errors = <<>> /\ lru = <<>>
    /\ name = "" /\ text = "" /\ typed = NoText /\ portions = <<>> /\ usda = NoService
    /\ UNIT_CONV = NoRegistry /\ result = <<>> /\ calls = <<>> /\ derived = <<>>
    /\ bag = <<>> /\ amounts = <<>> /\ out = <<>>

ConcurrentFrame ==
    UNCHANGED <<parserVars, pc, my_food_list, diary_by_food, diary_entries, _entry_seq,
                history_days, form, qty_errors, lru>>

\* lines 55-60: days = _load_all(...), then the day put into the list held
LoadAll(w) ==
    /\ workers[w].pc = "called"
    /\ workers' = [workers EXCEPT ![w] = Worker("loaded", workers[w].day,
                                                upsert_into(history_file, workers[w].day))]
    /\ UNCHANGED history_file
    /\ ConcurrentFrame

\* line 30: write_text opens the file for writing, which truncates it
OpenForWriting(w) ==
    /\ workers[w].pc = "loaded"
    /\ history_file' = <<>>
    /\ workers' = [workers EXCEPT ![w].pc = "opened"]
    /\ ConcurrentFrame

\* line 30: the list is written and the file closed; upsert_day returns
WriteAll(w) ==
    /\ workers[w].pc = "opened"
    /\ history_file' = workers[w].days
    /\ workers' = [workers EXCEPT ![w].pc = "done"]
    /\ ConcurrentFrame

NextConcurrent ==
    \/ \E w \in Workers : LoadAll(w)
    \/ \E w \in Workers : OpenForWriting(w)
    \/ \E w \in Workers : WriteAll(w)

SpecConcurrent == InitConcurrent /\ [][NextConcurrent]_vars

BothDone == \A w \in Workers : workers[w].pc = "done"

\* C29: no update is lost when two upsert_day calls for one user and two
\* different dates overlap: once both have completed, the file holds the
\* record of each of the two dates.
C29_NoLostUpdate ==
    BothDone =>
        \A w \in Workers : get_day(history_file, workers[w].day.date) = <<workers[w].day>>

\* both calls completed and the file holds one of the two days only
C29_LostUpdate ==
    /\ BothDone
    /\ Len(history_file) = 1
    /\ history_file[1] = workers[2].day

\* the call that writes last always has its own day in the file, together
\* with whatever it had loaded
LastWriterWins ==
    \A w \in Workers :
        (workers[w].pc = "done" /\ history_file = workers[w].days)
        => get_day(history_file, workers[w].day.date) = <<workers[w].day>>

(***************************************************************************)
(* app.py: the diary endpoints and the saving of a day to the history.     *)
(* All requests carry the same date; diary_by_food, diary_entries and      *)
(* history_days are the session's maps for it.                             *)
(***************************************************************************)
MaxSeq == 2

TheDate == "2024-05-01"

\* the fdcIds and grams a request may carry; grams 0 stands for no grams
FdcIdsSent == {"31", "7", "99"}

GramsSent == {0, 50}

\* _foods_by_id().get(fid), and next((f for f in _my_foods() if ...), None)
FoodById(fid) ==
    IF \E i \in 1..Len(my_food_list) : my_food_list[i].fdcId = fid
    THEN <<my_food_list[CHOOSE i \in 1..Len(my_food_list) : my_food_list[i].fdcId = fid]>>
    ELSE <<>>

\* float(data.get("grams") or default)
GramsOr(g, default) == IF g = 0 THEN Num(default) ELSE Num(g)

\* the row /app/api/diary/add and /api/diary/bulk_add store
FoodRow(food, grams) ==
    [grams |-> grams, nutrients |-> _scale(_per100(food.nutrients), grams),
     description |-> food.description]

\* the row /api/day/add stores
EntryRow(eid, food, grams) ==
    [id |-> eid, fdcId |-> food.fdcId, description |-> food.description, grams |-> grams,
     nutrients |-> _nutrients_for_grams(food.nutrients, grams)]

\* _entry_id(): f"e{c}"
EntryId(c) == "e" \o IntToStr(c)

\* float(n.get(k, 0.0)), an exception leaving the total as it is
NutrientOf(row, k) ==
    IF k \in DOMAIN row.nutrients /\ to_float(row.nutrients[k]) # <<>>
    THEN to_float(row.nutrients[k])[1] ELSE Zero

\* the sum of nutrient k over the rows of a map
RECURSIVE SumOfRows(_, _, _)
SumOfRows(entries, ids, k) ==
    IF ids = {} THEN Zero
    ELSE LET id == CHOOSE x \in ids : TRUE
         IN  RAdd(NutrientOf(entries[id], k), SumOfRows(entries, ids \ {id}, k))

\* the names of HISTORY_NUTRIENTS are those of wanted
HISTORY_NUTRIENTS == wanted

_compute_day_totals_from_entries(entries) ==
    [k \in HISTORY_NUTRIENTS |-> SumOfRows(entries, DOMAIN entries, k)]

InitDiary ==
    /\ my_food_list = DailyFoods
    /\ diary_by_food = <<>>
    /\ diary_entries = <<>>
    /\ _entry_seq = 0
    /\ history_days = <<>>
    /\ pc = "diary"
    /\ form = <<>> /\ qty_errors = <<>> /\ lru = <<>> /\ history_file = <<>> /\ workers = <<>>
    /\ name = "" /\ text = "" /\ typed = NoText /\ portions = <<>> /\ usda = NoService
    /\ UNIT_CONV = NoRegistry /\ result = <<>> /\ calls = <<>> /\ derived = <<>>
    /\ bag = <<>> /\ amounts = <<>> /\ out = <<>>

\* what the requests below leave alone
DiaryFrame ==
    UNCHANGED <<parserVars, my_food_list, form, qty_errors, lru, history_file, workers>>

\* POST /app/api/diary/add
ApiDiaryAdd ==
    /\ \E fid \in FdcIdsSent, g \in GramsSent :
          diary_by_food' = IF FoodById(fid) = <<>> THEN diary_by_food
                           ELSE Put(diary_by_food, fid, FoodRow(FoodById(fid)[1], GramsOr(g, 100)))
    /\ pc' = "diary"
    /\ UNCHANGED <<diary_entries, _entry_seq, history_days>>
    /\ DiaryFrame

\* the loop of /api/diary/bulk_add over the items from item i on
RECURSIVE BulkAdded(_, _, _)
BulkAdded(daymap, items, i) ==
    IF i > Len(items) THEN daymap
    ELSE BulkAdded(IF FoodById(items[i].fdcId) = <<>> THEN daymap
                   ELSE Put(daymap, items[i].fdcId,
                            FoodRow(FoodById(items[i].fdcId)[1], GramsOr(items[i].grams, 100))),
                   items, i + 1)

Item(fid, g) == [fdcId |-> fid, grams |-> g]

BulkItems ==
    {<<>>, <<Item("31", 50)>>, <<Item("31", 0), Item("7", 50)>>, <<Item("99", 50), Item("7", 0)>>,
     <<Item("7", 50), Item("7", 0)>>}

\* POST /api/diary/bulk_add
ApiDiaryBulkAdd ==
    /\ \E items \in BulkItems : diary_by_food' = BulkAdded(diary_by_food, items, 1)
    /\ pc' = "diary"
    /\ UNCHANGED <<diary_entries, _entry_seq, history_days>>
    /\ DiaryFrame

\* POST /app/api/diary/qty
ApiDiaryQty ==
    /\ \E fid \in FdcIdsSent, g \in GramsSent :
          diary_by_food' =
             IF fid \notin DOMAIN diary_by_food \/ FoodById(fid) = <<>> THEN diary_by_food
             ELSE Put(diary_by_food, fid,
                      [diary_by_food[fid] EXCEPT
                          !.grams = GramsOr(g, 0),
                          !.nutrients = _scale(_per100(FoodById(fid)[1].nutrients),
                                               GramsOr(g, 0))])
    /\ pc' = "diary"
    /\ UNCHANGED <<diary_entries, _entry_seq, history_days>>
    /\ DiaryFrame

\* POST /app/api/diary/remove
ApiDiaryRemove ==
    /\ \E fid \in FdcIdsSent : diary_by_food' = Without(diary_by_food, fid)
    /\ pc' = "diary"
    /\ UNCHANGED <<diary_entries, _entry_seq, history_days>>
    /\ DiaryFrame

\* POST /api/day/add; the entry ids given out stay within MaxSeq
ApiDayAdd ==
    /\ _entry_seq < MaxSeq
    /\ \E fid \in FdcIdsSent, g \in GramsSent :
          IF FoodById(fid) = <<>>
          THEN UNCHANGED <<diary_entries, _entry_seq>>
          ELSE /\ _entry_seq' = _entry_seq + 1
               /\ diary_entries' = Put(diary_entries, EntryId(_entry_seq + 1),
                                       EntryRow(EntryId(_entry_seq + 1), FoodById(fid)[1],
                                                GramsOr(g, 100)))
    /\ pc' = "diary"
    /\ UNCHANGED <<diary_by_food, history_days>>
    /\ DiaryFrame

\* POST /api/day/update with field "grams"
ApiDayUpdate ==
    /\ \E c \in 1..MaxSeq, g \in GramsSent :
          diary_entries' =
             IF EntryId(c) \notin DOMAIN diary_entries THEN diary_entries
             ELSE Put(diary_entries, EntryId(c),
                      [diary_entries[EntryId(c)] EXCEPT
                          !.grams = GramsOr(g, 0),
                          !.nutrients = _nutrients_for_grams(
                                            FoodById(diary_entries[EntryId(c)].fdcId)[1].nutrients,
                                            GramsOr(g, 0))])
    /\ pc' = "diary"
    /\ UNCHANGED <<diary_by_food, _entry_seq, history_days>>
    /\ DiaryFrame

\* POST /api/day/remove
ApiDayRemove ==
    /\ \E c \in 1..MaxSeq : diary_entries' = Without(diary_entries, EntryId(c))
    /\ pc' = "diary"
    /\ UNCHANGED <<diary_by_food, _entry_seq, history_days>>
    /\ DiaryFrame

\* POST /app/api/history/save; saved_at, the time of the request, is left out
ApiHistorySave ==
    /\ history_days' = Put(history_days, TheDate,
                           [date |-> TheDate,
                            totals |-> _compute_day_totals_from_entries(diary_entries)])
    /\ pc' = "history_save"
    /\ UNCHANGED <<diary_by_food, diary_entries, _entry_seq>>
    /\ DiaryFrame

NextDiary ==
    \/ ApiDiaryAdd \/ ApiDiaryBulkAdd \/ ApiDiaryQty \/ ApiDiaryRemove
    \/ ApiDayAdd \/ ApiDayUpdate \/ ApiDayRemove
    \/ ApiHistorySave

SpecDiary == InitDiary /\ [][NextDiary]_vars

\* the per-nutrient sum over the rows now in the date's diary, whichever
\* endpoint put them there
DiaryTotals ==
    [k \in HISTORY_NUTRIENTS |-> RAdd(SumOfRows(diary_by_food, DOMAIN diary_by_food, k),
                           SumOfRows(diary_entries, DOMAIN diary_entries, k))]

\* C30: saving a day to the history uses the storage of the diary: after any
\* sequence of diary operations for the date (add, bulk add, change of
\* quantity, remove, through /app/api/diary/* or /api/day/*) the save records
\* totals equal to the per-nutrient sum over exactly the entries now in the
\* date's diary.
C30_SaveTotalsTheDiary ==
    pc = "history_save" => history_days[TheDate].totals = DiaryTotals

\* 50 g of rice were added through /app/api/diary/add and the day saved:
\* the totals saved are all zero
C30_DiaryRowNotSaved ==
    /\ pc = "history_save"
    /\ DOMAIN diary_by_food = {"31"} /\ diary_by_food["31"].grams = Num(50)
    /\ diary_by_food["31"].nutrients["Calories"] = PyNum(Num(65))
    /\ diary_entries = <<>>
    /\ history_days[TheDate].totals["Calories"] = Zero

\* the save records the sum over the rows of /api/day/* alone
SaveTotalsDayEntries ==
    pc = "history_save" =>
        history_days[TheDate].totals = _compute_day_totals_from_entries(diary_entries)
====
